---- MODULE Spec2Model ----
(***************************************************************************)
(* The encrypted secrets vault of the lifecycle webhook tool:               *)
(*   - crypto/secrets-crypto.ts and crypto/storage.ts (src/unnamed/part_011)*)
(*   - stores/secrets-store.ts                        (src/unnamed/part_009)*)
(* The persistent store (IndexedDB), the vault closure, the svelte state    *)
(* and the auto-lock timer are the state; every exported async function is  *)
(* cut at its storage requests, so that one action is one task of the      *)
(* JavaScript event loop.                                                   *)
(***************************************************************************)
EXTENDS Integers, Sequences, FiniteSets, TLC

\* ------------------------------------------------------------------ bounds
\* Random draws per behaviour: nonces (one per encryption) and salts.
MaxNonce == 4
MaxSalt == 2
\* Calls and events of a behaviour whose calls overlap.
MaxCalls == 6
\* Clock ticks a timed behaviour may take.
MaxTime == 4

\* ------------------------------------------------------------- input sets
Passwords == {"pw1", "pw2"}
\* The application ids, in the order IndexedDB lists their keys.
AppOrder == <<"app1", "app2">>
AppIds == {AppOrder[i] : i \in 1..Len(AppOrder)}
SecretValues == {"abc", "xyz"}
Slots == {1, 2}

\* ------------------------------------------------------- JavaScript values
Null == [t |-> "null"]
Undefined == [t |-> "undefined"]
Void == [t |-> "void"]
JsTrue == [t |-> "boolean", v |-> TRUE]
JsFalse == [t |-> "boolean", v |-> FALSE]
JsString(s) == [t |-> "string", v |-> s]
JsError(msg) == [t |-> "error", message |-> msg]
\* What a failed IndexedDB request rejects with.
StorageError == JsError("StorageError")
NullPassword == "<null>"

\* --------------------------------------------------------------- libsodium
\* A caught exception of crypto_secretbox_open_easy / from_base64.
Thrown == [t |-> "thrown"]

\* sodium.randombytes_buf: the n-th draw of the behaviour.
generateSalt(n) == [t |-> "bytes", salt |-> n]
randomNonce(n) == [t |-> "bytes", nonce |-> n]

\* Argon2id: deterministic in (password, salt), injective in the model.
deriveMasterKey(password, salt) == [t |-> "key", pw |-> password, salt |-> salt]

\* sodium.memzero leaves the all-zero buffer.
ZeroKey == [t |-> "key", pw |-> "", salt |-> Null]
secureZero(data) == ZeroKey

\* A key derivation that leaves the app id out of the context.
deriveDEK_Shared(masterKey, appId) == [t |-> "dek", mk |-> masterKey, app |-> ""]

\* BLAKE2b keyed hash of the app id.
deriveDEK(masterKey, appId) == [t |-> "dek", mk |-> masterKey, app |-> appId]

\* sodium.to_base64 / from_base64: text for bytes, and bytes for well-formed
\* text only.
to_base64(bytes) == [t |-> "base64", of |-> bytes]
from_base64(text) == IF text.t = "base64" THEN text.of ELSE Thrown

from_string(s) == [t |-> "utf8", s |-> s]
to_string(bytes) == bytes.s

\* AppSecrets has the one field client_secret.
createEmptyAppSecrets == [client_secret |-> ""]
JSONstringify(secrets) == << <<"client_secret", secrets.client_secret>> >>
JSONparse(json) == [client_secret |-> json[1][2]]

\* XSalsa20-Poly1305: the box opens under the key and nonce that made it.
crypto_secretbox_easy(plaintext, nonce, dek) ==
    [t |-> "box", m |-> plaintext, n |-> nonce, k |-> dek, mac |-> TRUE]

crypto_secretbox_open_easy(ciphertext, nonce, dek) ==
    IF /\ ciphertext.t = "box"
       /\ ciphertext.mac
       /\ ciphertext.n = nonce
       /\ ciphertext.k = dek
    THEN ciphertext.m
    ELSE Thrown

\* encryptSecrets without the secretbox: the serialized bundle as it is.
encryptSecrets_Plain(secrets, dek, n) ==
    [ciphertext |-> from_string(JSONstringify(secrets)), nonce |-> randomNonce(n)]

encryptSecrets(secrets, dek, n) ==
    LET nonce == randomNonce(n)
        plaintext == from_string(JSONstringify(secrets))
    IN  [ciphertext |-> crypto_secretbox_easy(plaintext, nonce, dek),
         nonce |-> nonce]

decryptSecrets(ciphertext, nonce, dek) ==
    LET plaintext == crypto_secretbox_open_easy(ciphertext, nonce, dek)
    IN  IF plaintext = Thrown THEN Thrown ELSE JSONparse(to_string(plaintext))

\* The spread the other way round, { ...newSecrets, ...existingAppSecrets }.
mergeSecrets_ExistingWins(existing, newSecrets) ==
    [f \in DOMAIN existing \cup DOMAIN newSecrets |->
        IF f \in DOMAIN existing THEN existing[f] ELSE newSecrets[f]]

\* { ...existingAppSecrets, ...newSecrets } with newSecrets a Partial<AppSecrets>.
mergeSecrets(existing, newSecrets) ==
    [f \in DOMAIN existing \cup DOMAIN newSecrets |->
        IF f \in DOMAIN newSecrets THEN newSecrets[f] ELSE existing[f]]

\* The partial updates a caller passes: no field, or client_secret.
NoUpdate == [f \in {} |-> ""]
Updates == {NoUpdate} \cup {[client_secret |-> v] : v \in SecretValues}

\* ------------------------------------------------------------------ state
VARIABLES
    db,             \* the object store "secrets" of IndexedDB: key -> entry
    secretsState,   \* the svelte store secretsStateInternal
    password,       \* secretsVault: password
    masterKey,      \* secretsVault: masterKey
    secretsCache,   \* secretsVault: secretsCache
    autoLockTimer,  \* the pending setTimeout, or Null
    now,            \* the clock, in ticks
    ioFails,        \* whether the requests to IndexedDB fail at present
    file,           \* the backup file the user last exported, or Null
    persistSession, \* UnlockModal: the checkbox 'Keep unlocked after page refresh'
    calls,          \* the async calls in flight, one per slot
    nonces,         \* nonces drawn so far
    salts,          \* salts drawn so far
    ret,            \* what the step just taken returned to its caller
    script,         \* the calls a scripted caller still has to make
    hist,           \* what a scripted caller's calls returned, and when
    setupPassword   \* the password the vault was last set up with (for the claims)

\* ----------------------------------------------------------- IndexedDB
SaltKey == <<"salt">>
AppKey(appId) == <<"app:", appId>>

dbGet(store, key) == IF key \in DOMAIN store THEN store[key] ELSE Undefined
dbPut(store, entry) ==
    [k \in DOMAIN store \cup {entry.key} |->
        IF k = entry.key THEN entry ELSE store[k]]
dbDelete(store, key) == [k \in DOMAIN store \ {key} |-> store[k]]
clearAll == [k \in {} |-> Undefined]

\* The three readers catch a failed request: false, null, null.
hasStoredSecrets(store) ==
    IF ioFails THEN FALSE ELSE dbGet(store, SaltKey) # Undefined

getSalt(store) ==
    LET entry == dbGet(store, SaltKey)
    IN  IF ioFails THEN Null
        ELSE IF entry # Undefined THEN entry.data ELSE Null

setSalt(store, salt) == dbPut(store, [key |-> SaltKey, data |-> salt])

getAppEncrypted(store, appId) ==
    LET entry == dbGet(store, AppKey(appId))
    IN  IF ioFails THEN Null
        ELSE IF entry # Undefined /\ "nonce" \in DOMAIN entry
        THEN [ciphertext |-> entry.data, nonce |-> entry.nonce]
        ELSE Null

setAppEncrypted(store, appId, ciphertext, nonce) ==
    dbPut(store, [key |-> AppKey(appId), data |-> ciphertext, nonce |-> nonce])

deleteAppEncrypted(store, appId) == dbDelete(store, AppKey(appId))

\* The keys that start with "app:", prefix cut, in key order.
getAllAppIds(store) ==
    SelectSeq(AppOrder,
              LAMBDA a : \E k \in DOMAIN store : k[1] = "app:" /\ k = <<"app:", a>>)

\* ----------------------------------------------------------- state, in groups
memVars == <<secretsState, password, masterKey, secretsCache>>
rndVars == <<nonces, salts>>
envVars == <<now, ioFails, file, persistSession>>
vars == <<db, secretsState, password, masterKey, secretsCache, autoLockTimer,
          now, ioFails, file, persistSession, calls, nonces, salts, ret, script, hist, setupPassword>>

AUTO_LOCK_TIMEOUT_MS == 15 * 60 * 1000
TickMs == 5 * 60 * 1000
AutoLockTicks == AUTO_LOCK_TIMEOUT_MS \div TickMs

defaultState ==
    [isLocked |-> TRUE, hasSecrets |-> FALSE,
     masterPasswordSet |-> FALSE, isInitialized |-> FALSE]

EmptyCache == [a \in {} |-> Undefined]
Idle == [op |-> "idle", pc |-> "idle"]
NoRet == [op |-> "none"]

\* The page has just loaded, nothing is stored; caller is who will call.
Loaded(caller) ==
    /\ script = caller
    /\ db = clearAll
    /\ secretsState = defaultState
    /\ password = NullPassword
    /\ masterKey = Null
    /\ secretsCache = EmptyCache
    /\ autoLockTimer = Null
    /\ now = 0
    /\ ioFails = FALSE
    /\ file = Null
    /\ persistSession = FALSE
    /\ calls = [c \in Slots |-> Idle]
    /\ nonces = 0
    /\ salts = 0
    /\ ret = NoRet
    /\ hist = <<>>
    /\ setupPassword = NullPassword

\* ------------------------------------------------------------ vault closure
getCachedAppSecrets(appId) ==
    IF appId \in DOMAIN secretsCache THEN secretsCache[appId] ELSE Undefined

cacheAppSecrets(cache, appId, secrets) ==
    [a \in DOMAIN cache \cup {appId} |-> IF a = appId THEN secrets ELSE cache[a]]

uncacheAppSecrets(cache, appId) == [a \in DOMAIN cache \ {appId} |-> cache[a]]

\* secureZero(masterKey) zeroes the buffer in place: every call that holds a
\* reference to the vault's key now reads zeros through it.
zeroedRefs(cs) ==
    IF masterKey = Null THEN cs
    ELSE [c \in Slots |->
            IF "mk" \in DOMAIN cs[c] THEN [cs[c] EXCEPT !.mk = secureZero(@)]
            ELSE cs[c]]

startAutoLockTimer == [t |-> "timeout", due |-> now + AutoLockTicks]

\* ------------------------------------------------------------- the caller
\* script says who calls: <<Serial>> is a caller that awaits each call before
\* it makes the next one, whatever it is; <<Concurrent(n)>> makes n calls
\* (and events), also while others are in flight; any other script is the list
\* of calls (and events) still to come, made one after the other, whose
\* results hist records.
Serial == [op |-> "serial"]
Concurrent(n) == [op |-> "concurrent", left |-> n]
ScriptHead == IF script = <<>> THEN [op |-> "end"] ELSE Head(script)
Scripted == ScriptHead.op \notin {"serial", "concurrent"}
IsIdle(c) == calls[c].op = "idle"
NoCall == \A c \in Slots : IsIdle(c)

\* The caller does s now (an event, or a call made in slot c).
Does(s) ==
    /\ ScriptHead.op # "concurrent" => NoCall
    /\ Scripted => ScriptHead = s
    /\ ScriptHead.op = "concurrent" => ScriptHead.left > 0
    /\ script' = IF Scripted THEN Tail(script)
                 ELSE IF ScriptHead.op = "concurrent"
                 THEN <<Concurrent(ScriptHead.left - 1)>>
                 ELSE script
Calls(c, s) ==
    /\ IsIdle(c)
    /\ ScriptHead.op # "concurrent" => c = 1
    /\ Does(s)

Recorded(r) == IF Scripted THEN Append(hist, r @@ [at |-> now]) ELSE hist

\* A step returns nothing to the caller, or an event reports r.
Silent == /\ ret' = NoRet
          /\ UNCHANGED <<hist, setupPassword>>
Reports(r) == /\ ret' = r
              /\ hist' = Recorded(r)
              /\ setupPassword' = setupPassword

\* The setup password once slot c has returned r: an unlockSecrets that had
\* no record to verify the password against (the first-time path, or no
\* record stored) sets the vault up, resetAllSecrets leaves none.
setupAfter(c, r) ==
    IF /\ r.op = "unlock"
       /\ r.val = JsTrue
       /\ calls[c].firstTime \/ getAllAppIds(db) = <<>>
    THEN r.password
    ELSE IF r.op = "resetAll" /\ r.val = Void THEN NullPassword
    ELSE setupPassword

\* A call moves on, or returns.
Goto(c, frame) == /\ calls' = [calls EXCEPT ![c] = frame]
                  /\ Silent
Return(c, r) == /\ calls' = [calls EXCEPT ![c] = Idle]
                /\ ret' = r
                /\ hist' = Recorded(r)
                /\ setupPassword' = setupAfter(c, r)
ReturnZeroing(c, r) == /\ calls' = [zeroedRefs(calls) EXCEPT ![c] = Idle]
                       /\ ret' = r
                       /\ hist' = Recorded(r)
                       /\ setupPassword' = setupAfter(c, r)
At(c, pc) == /\ calls[c].pc = pc
             /\ script' = script

\* ------------------------------------------------- initializeSecretsStore
Initialize_Read(c) ==
    /\ Calls(c, [op |-> "initialize"])
    /\ Goto(c, [op |-> "initialize", pc |-> "init_update",
                hasSecretsStored |-> hasStoredSecrets(db)])
    /\ UNCHANGED <<db, memVars, autoLockTimer, envVars, rndVars>>

\* initializeSecretsStore that sets the state anew instead of updating it.
Initialize_Update_Sets(c) ==
    /\ At(c, "init_update")
    /\ secretsState' = [defaultState EXCEPT
                            !.hasSecrets = calls[c].hasSecretsStored,
                            !.masterPasswordSet = calls[c].hasSecretsStored,
                            !.isInitialized = TRUE]
    /\ Return(c, [op |-> "initialize", val |-> Void])
    /\ UNCHANGED <<db, password, masterKey, secretsCache, autoLockTimer, envVars, rndVars>>

Initialize_Update(c) ==
    /\ At(c, "init_update")
    /\ secretsState' = [secretsState EXCEPT
                            !.hasSecrets = calls[c].hasSecretsStored,
                            !.masterPasswordSet = calls[c].hasSecretsStored,
                            !.isInitialized = TRUE]
    /\ Return(c, [op |-> "initialize", val |-> Void])
    /\ UNCHANGED <<db, password, masterKey, secretsCache, autoLockTimer, envVars, rndVars>>

\* ------------------------------------------------------------ unlockSecrets
Unlock_Start(c, p) ==
    /\ Calls(c, [op |-> "unlock", password |-> p])
    /\ secretsState.isInitialized
    /\ Goto(c, [op |-> "unlock", password |-> p,
                firstTime |-> ~secretsState.hasSecrets,
                pc |-> IF ~secretsState.hasSecrets THEN "ul_getSalt" ELSE "vp_getSalt"])
    /\ UNCHANGED <<db, memVars, autoLockTimer, envVars, rndVars>>

\* initializeSalt -> getOrCreateSalt: getSalt
Unlock_InitSalt_Get(c) ==
    /\ At(c, "ul_getSalt")
    /\ Goto(c, [calls[c] EXCEPT
                  !.pc = IF getSalt(db) # Null THEN "mk_getSalt" ELSE "ul_setSalt"])
    /\ UNCHANGED <<db, memVars, autoLockTimer, envVars, rndVars>>

\* getOrCreateSalt that generates the salt and does not store it.
Unlock_InitSalt_Set_NotStored(c) ==
    /\ At(c, "ul_setSalt")
    /\ salts < MaxSalt
    /\ salts' = salts + 1
    /\ db' = db
    /\ Goto(c, [calls[c] EXCEPT !.pc = "mk_getSalt"])
    /\ UNCHANGED <<memVars, autoLockTimer, envVars, nonces>>

\* getOrCreateSalt: generateSalt, setSalt
Unlock_InitSalt_Set(c) ==
    /\ At(c, "ul_setSalt")
    /\ salts < MaxSalt
    /\ salts' = salts + 1
    /\ IF ioFails
       THEN /\ db' = db
            /\ Return(c, [op |-> "unlock", password |-> calls[c].password,
                          val |-> StorageError])
       ELSE /\ db' = setSalt(db, generateSalt(salts + 1))
            /\ Goto(c, [calls[c] EXCEPT !.pc = "mk_getSalt"])
    /\ UNCHANGED <<memVars, autoLockTimer, envVars, nonces>>

\* verifyPassword: getSalt
Unlock_Verify_GetSalt(c) ==
    /\ At(c, "vp_getSalt")
    /\ LET salt == getSalt(db)
       IN  Goto(c, IF salt = Null
                   THEN [calls[c] EXCEPT !.pc = "mk_getSalt"]
                   ELSE [op |-> "unlock", password |-> calls[c].password,
                         firstTime |-> calls[c].firstTime,
                         pc |-> "vp_getAllAppIds", salt |-> salt])
    /\ UNCHANGED <<db, memVars, autoLockTimer, envVars, rndVars>>

\* verifyPassword that tries the last app's record, not the first.
Unlock_Verify_AppIds_Last(c) ==
    /\ At(c, "vp_getAllAppIds")
    /\ LET appIds == getAllAppIds(db)
       IN  IF ioFails
           THEN Return(c, [op |-> "unlock", password |-> calls[c].password,
                           val |-> JsFalse])
           ELSE Goto(c, IF Len(appIds) = 0
                        THEN [op |-> "unlock", password |-> calls[c].password,
                              firstTime |-> calls[c].firstTime, pc |-> "mk_getSalt"]
                        ELSE [op |-> "unlock", password |-> calls[c].password,
                              firstTime |-> calls[c].firstTime,
                              pc |-> "vp_getAppEncrypted", salt |-> calls[c].salt,
                              firstAppId |-> appIds[Len(appIds)]])
    /\ UNCHANGED <<db, memVars, autoLockTimer, envVars, rndVars>>

\* verifyPassword that rejects the password when no app record is stored.
Unlock_Verify_AppIds_NeedsRecord(c) ==
    /\ At(c, "vp_getAllAppIds")
    /\ LET appIds == getAllAppIds(db)
       IN  IF ioFails \/ Len(appIds) = 0
           THEN Return(c, [op |-> "unlock", password |-> calls[c].password,
                           val |-> JsFalse])
           ELSE Goto(c, [op |-> "unlock", password |-> calls[c].password,
                         firstTime |-> calls[c].firstTime,
                         pc |-> "vp_getAppEncrypted", salt |-> calls[c].salt,
                         firstAppId |-> appIds[1]])
    /\ UNCHANGED <<db, memVars, autoLockTimer, envVars, rndVars>>

\* verifyPassword: getAllAppIds
Unlock_Verify_AppIds(c) ==
    /\ At(c, "vp_getAllAppIds")
    /\ LET appIds == getAllAppIds(db)
       IN  IF ioFails
           THEN Return(c, [op |-> "unlock", password |-> calls[c].password,
                           val |-> JsFalse])
           ELSE Goto(c, IF Len(appIds) = 0
                        THEN [op |-> "unlock", password |-> calls[c].password,
                              firstTime |-> calls[c].firstTime, pc |-> "mk_getSalt"]
                        ELSE [op |-> "unlock", password |-> calls[c].password,
                              firstTime |-> calls[c].firstTime,
                              pc |-> "vp_getAppEncrypted", salt |-> calls[c].salt,
                              firstAppId |-> appIds[1]])
    /\ UNCHANGED <<db, memVars, autoLockTimer, envVars, rndVars>>

\* verifyPassword without its decryption: any password passes.
passwordOpens_Unchecked(pw, salt, appId, encrypted) == TRUE

\* verifyPassword: whether the first app's record opens under the password.
passwordOpens(pw, salt, appId, encrypted) ==
    LET candidateKey == deriveMasterKey(pw, salt)
        dek == deriveDEK(candidateKey, appId)
    IN  decryptSecrets(encrypted.ciphertext, encrypted.nonce, dek) # Thrown

\* verifyPassword: getAppEncrypted(firstAppId), decryptSecrets
Unlock_Verify_Decrypt(c) ==
    /\ At(c, "vp_getAppEncrypted")
    /\ LET encrypted == getAppEncrypted(db, calls[c].firstAppId)
           valid == IF encrypted = Null THEN TRUE
                    ELSE passwordOpens(calls[c].password, calls[c].salt,
                                       calls[c].firstAppId, encrypted)
       IN  IF valid
           THEN Goto(c, [op |-> "unlock", password |-> calls[c].password,
                         firstTime |-> calls[c].firstTime, pc |-> "mk_getSalt"])
           ELSE Return(c, [op |-> "unlock", password |-> calls[c].password,
                           val |-> JsFalse])
    /\ UNCHANGED <<db, memVars, autoLockTimer, envVars, rndVars>>

\* getMasterKey(password): getSalt, deriveMasterKey
getMasterKey(store, pw) ==
    LET salt == getSalt(store)
    IN  IF salt = Null THEN Null ELSE deriveMasterKey(pw, salt)

Unlock_GetMasterKey(c) ==
    /\ At(c, "mk_getSalt")
    /\ Goto(c, [op |-> "unlock", password |-> calls[c].password,
                firstTime |-> calls[c].firstTime, pc |-> "ul_commit",
                newKey |-> getMasterKey(db, calls[c].password)])
    /\ UNCHANGED <<db, memVars, autoLockTimer, envVars, rndVars>>

\* setPassword, setMasterKey, isLocked: false, startAutoLockTimer, return true;
\* the unlock dialog that awaited it clears its checkbox.
Unlock_Commit(c) ==
    /\ At(c, "ul_commit")
    /\ password' = calls[c].password
    /\ masterKey' = calls[c].newKey
    /\ secretsState' = [secretsState EXCEPT
                            !.isLocked = FALSE,
                            !.masterPasswordSet = IF calls[c].firstTime THEN TRUE ELSE @]
    /\ autoLockTimer' = startAutoLockTimer
    /\ ReturnZeroing(c, [op |-> "unlock", password |-> calls[c].password,
                         val |-> JsTrue])
    /\ persistSession' = FALSE
    /\ UNCHANGED <<db, secretsCache, now, ioFails, file, rndVars>>

\* -------------------------------------------------------------- lockSecrets
\* lockSecrets that sets the state anew: hasSecrets is forgotten.
lockSecrets_SetsState ==
    /\ autoLockTimer' = Null
    /\ password' = NullPassword
    /\ masterKey' = Null
    /\ secretsCache' = EmptyCache
    /\ secretsState' = [defaultState EXCEPT !.isInitialized = TRUE]
    /\ calls' = zeroedRefs(calls)
    /\ UNCHANGED <<db, envVars, rndVars>>

\* lockSecrets that flips isLocked instead of setting it.
lockSecrets_Toggle ==
    /\ autoLockTimer' = Null
    /\ password' = NullPassword
    /\ masterKey' = Null
    /\ secretsCache' = EmptyCache
    /\ secretsState' = [secretsState EXCEPT !.isLocked = ~@]
    /\ calls' = zeroedRefs(calls)
    /\ UNCHANGED <<db, envVars, rndVars>>

lockSecrets ==
    /\ autoLockTimer' = Null
    /\ password' = NullPassword
    /\ masterKey' = Null
    /\ secretsCache' = EmptyCache
    /\ secretsState' = [secretsState EXCEPT !.isLocked = TRUE]
    /\ calls' = zeroedRefs(calls)
    /\ UNCHANGED <<db, envVars, rndVars>>

Lock ==
    /\ Does([op |-> "lock"])
    /\ secretsState.isInitialized
    /\ lockSecrets
    /\ Reports([op |-> "lock", val |-> Void])

\* The setTimeout callback of startAutoLockTimer, after however long.
AutoLock ==
    /\ Does([op |-> "autolock"])
    /\ autoLockTimer # Null
    /\ lockSecrets
    /\ Reports([op |-> "autolock", val |-> Void])

\* resetAutoLockTimer that leaves the pending timer as it is.
ResetAutoLockTimer_NoRearm ==
    /\ Does([op |-> "notifyActivity"])
    /\ secretsState.isInitialized
    /\ Reports([op |-> "notifyActivity", val |-> Void])
    /\ UNCHANGED <<db, memVars, autoLockTimer, envVars, calls, rndVars>>

\* resetAutoLockTimer (notifyActivity)
ResetAutoLockTimer ==
    /\ Does([op |-> "notifyActivity"])
    /\ secretsState.isInitialized
    /\ autoLockTimer' = IF ~secretsState.isLocked THEN startAutoLockTimer
                        ELSE autoLockTimer
    /\ Reports([op |-> "notifyActivity", val |-> Void])
    /\ UNCHANGED <<db, memVars, envVars, calls, rndVars>>

\* The same callback under a clock: it runs when the delay has passed.
AutoLock_Due ==
    /\ autoLockTimer # Null
    /\ now >= autoLockTimer.due
    /\ AutoLock

\* Time passes; a timer that is due fires before the clock moves past it.
Tick ==
    /\ now < MaxTime
    /\ autoLockTimer # Null => now < autoLockTimer.due
    /\ now' = now + 1
    /\ Silent
    /\ UNCHANGED <<db, memVars, autoLockTimer, ioFails, file, persistSession, calls, rndVars, script>>

\* ------------------------------------------------ getAppSecret / getAppSecrets
\* appSecrets?.[key]
fieldOf(appSecrets, key) ==
    IF appSecrets = Undefined THEN Undefined ELSE JsString(appSecrets[key])

\* loadAndDecryptAppSecrets after its read: every exception becomes null.
loadAndDecryptAppSecrets(encrypted, appId, key) ==
    IF encrypted = Null THEN Null
    ELSE LET secrets == decryptSecrets(encrypted.ciphertext, encrypted.nonce,
                                       deriveDEK(key, appId))
         IN  IF secrets = Thrown THEN Null ELSE secrets

\* getAppSecrets without its isLocked test.
GetSecret_Start_NoLockTest(c, appId, key) ==
    /\ Calls(c, [op |-> "getSecret", appId |-> appId, key |-> key])
    /\ secretsState.isInitialized
    /\ IF getCachedAppSecrets(appId) # Undefined
       THEN Return(c, [op |-> "getSecret", appId |-> appId, key |-> key,
                       val |-> fieldOf(getCachedAppSecrets(appId), key)])
       ELSE Goto(c, [op |-> "getSecret", pc |-> "get_getAppEncrypted",
                     appId |-> appId, key |-> key, mk |-> masterKey])
    /\ UNCHANGED <<db, memVars, autoLockTimer, envVars, rndVars>>

GetSecret_Start(c, appId, key) ==
    /\ Calls(c, [op |-> "getSecret", appId |-> appId, key |-> key])
    /\ secretsState.isInitialized
    /\ IF secretsState.isLocked
       THEN Return(c, [op |-> "getSecret", appId |-> appId, key |-> key,
                       val |-> Undefined])
       ELSE IF getCachedAppSecrets(appId) # Undefined
       THEN Return(c, [op |-> "getSecret", appId |-> appId, key |-> key,
                       val |-> fieldOf(getCachedAppSecrets(appId), key)])
       ELSE IF masterKey = Null
       THEN Return(c, [op |-> "getSecret", appId |-> appId, key |-> key,
                       val |-> Undefined])
       ELSE Goto(c, [op |-> "getSecret", pc |-> "get_getAppEncrypted",
                     appId |-> appId, key |-> key, mk |-> masterKey])
    /\ UNCHANGED <<db, memVars, autoLockTimer, envVars, rndVars>>

GetSecret_Read(c) ==
    /\ At(c, "get_getAppEncrypted")
    /\ Goto(c, [op |-> "getSecret", pc |-> "get_decrypt",
                appId |-> calls[c].appId, key |-> calls[c].key, mk |-> calls[c].mk,
                encrypted |-> getAppEncrypted(db, calls[c].appId)])
    /\ UNCHANGED <<db, memVars, autoLockTimer, envVars, rndVars>>

GetSecret_Decrypt(c) ==
    /\ At(c, "get_decrypt")
    /\ LET decrypted == loadAndDecryptAppSecrets(calls[c].encrypted, calls[c].appId,
                                                 calls[c].mk)
       IN  IF decrypted # Null
           THEN /\ secretsCache' = cacheAppSecrets(secretsCache, calls[c].appId, decrypted)
                /\ Return(c, [op |-> "getSecret", appId |-> calls[c].appId,
                              key |-> calls[c].key,
                              val |-> fieldOf(decrypted, calls[c].key)])
           ELSE /\ secretsCache' = secretsCache
                /\ Return(c, [op |-> "getSecret", appId |-> calls[c].appId,
                              key |-> calls[c].key, val |-> Undefined])
    /\ UNCHANGED <<db, secretsState, password, masterKey, autoLockTimer, envVars, rndVars>>

\* ------------------------------------------------------------ setAppSecrets
\* setAppSecrets that starts from the empty bundle, whatever exists.
sealedFrame_Overwrite(appId, newSecrets, existing, key, n) ==
    LET updatedAppSecrets == mergeSecrets(createEmptyAppSecrets, newSecrets)
        sealed == encryptSecrets(updatedAppSecrets, deriveDEK(key, appId), n)
    IN  [op |-> "setSecret", pc |-> "set_setAppEncrypted", appId |-> appId,
         newSecrets |-> newSecrets, mk |-> key,
         updatedAppSecrets |-> updatedAppSecrets,
         ciphertext |-> sealed.ciphertext, nonce |-> sealed.nonce]

\* encryptAndStoreAppSecrets up to its write: deriveDEK, encryptSecrets.
sealedFrame(appId, newSecrets, existing, key, n) ==
    LET updatedAppSecrets == mergeSecrets(existing, newSecrets)
        sealed == encryptSecrets(updatedAppSecrets, deriveDEK(key, appId), n)
    IN  [op |-> "setSecret", pc |-> "set_setAppEncrypted", appId |-> appId,
         newSecrets |-> newSecrets, mk |-> key,
         updatedAppSecrets |-> updatedAppSecrets,
         ciphertext |-> sealed.ciphertext, nonce |-> sealed.nonce]

SetSecret_Start(c, appId, newSecrets) ==
    /\ Calls(c, [op |-> "setSecret", appId |-> appId, newSecrets |-> newSecrets])
    /\ secretsState.isInitialized
    /\ masterKey # Null => nonces < MaxNonce
    /\ IF masterKey = Null
       THEN /\ Return(c, [op |-> "setSecret", appId |-> appId, newSecrets |-> newSecrets,
                          val |-> JsError("Cannot save secrets while locked")])
            /\ nonces' = nonces
       ELSE IF secretsState.isLocked
       THEN /\ Goto(c, sealedFrame(appId, newSecrets, createEmptyAppSecrets,
                                   masterKey, nonces + 1))
            /\ nonces' = nonces + 1
       ELSE IF getCachedAppSecrets(appId) # Undefined
       THEN /\ Goto(c, sealedFrame(appId, newSecrets, getCachedAppSecrets(appId),
                                   masterKey, nonces + 1))
            /\ nonces' = nonces + 1
       ELSE /\ Goto(c, [op |-> "setSecret", pc |-> "set_getAppEncrypted",
                        appId |-> appId, newSecrets |-> newSecrets, mk |-> masterKey])
            /\ nonces' = nonces
    /\ UNCHANGED <<db, memVars, autoLockTimer, envVars, salts>>

SetSecret_Read(c) ==
    /\ At(c, "set_getAppEncrypted")
    /\ Goto(c, [op |-> "setSecret", pc |-> "set_merge",
                appId |-> calls[c].appId, newSecrets |-> calls[c].newSecrets,
                mk |-> calls[c].mk,
                encrypted |-> getAppEncrypted(db, calls[c].appId)])
    /\ UNCHANGED <<db, memVars, autoLockTimer, envVars, rndVars>>

\* getAppSecrets resumes (decrypt, cache), then merge and encrypt.
SetSecret_Merge(c) ==
    /\ At(c, "set_merge")
    /\ nonces < MaxNonce
    /\ nonces' = nonces + 1
    /\ LET decrypted == loadAndDecryptAppSecrets(calls[c].encrypted, calls[c].appId,
                                                 calls[c].mk)
       IN  /\ secretsCache' = IF decrypted # Null
                              THEN cacheAppSecrets(secretsCache, calls[c].appId, decrypted)
                              ELSE secretsCache
           /\ Goto(c, sealedFrame(calls[c].appId, calls[c].newSecrets,
                                  IF decrypted # Null THEN decrypted
                                  ELSE createEmptyAppSecrets,
                                  calls[c].mk, nonces + 1))
    /\ UNCHANGED <<db, secretsState, password, masterKey, autoLockTimer, envVars, salts>>

SetSecret_Write(c) ==
    /\ At(c, "set_setAppEncrypted")
    /\ IF ioFails
       THEN /\ db' = db
            /\ Return(c, [op |-> "setSecret", appId |-> calls[c].appId,
                          newSecrets |-> calls[c].newSecrets, val |-> StorageError])
       ELSE /\ db' = setAppEncrypted(db, calls[c].appId, calls[c].ciphertext,
                                     calls[c].nonce)
            /\ Goto(c, [calls[c] EXCEPT !.pc = "set_commit"])
    /\ UNCHANGED <<memVars, autoLockTimer, envVars, rndVars>>

SetSecret_Commit(c) ==
    /\ At(c, "set_commit")
    /\ secretsCache' = cacheAppSecrets(secretsCache, calls[c].appId,
                                       calls[c].updatedAppSecrets)
    /\ secretsState' = [secretsState EXCEPT !.hasSecrets = TRUE]
    /\ Return(c, [op |-> "setSecret", appId |-> calls[c].appId,
                  newSecrets |-> calls[c].newSecrets, val |-> Void])
    /\ UNCHANGED <<db, password, masterKey, autoLockTimer, envVars, rndVars>>

\* --------------------------------------------------------- removeAppSecrets
RemoveSecret_Start(c, appId) ==
    /\ Calls(c, [op |-> "removeSecret", appId |-> appId])
    /\ secretsState.isInitialized
    /\ IF masterKey = Null
       THEN Return(c, [op |-> "removeSecret", appId |-> appId,
                       val |-> JsError("Cannot remove secrets while locked")])
       ELSE Goto(c, [op |-> "removeSecret", pc |-> "rm_deleteAppEncrypted",
                     appId |-> appId])
    /\ UNCHANGED <<db, memVars, autoLockTimer, envVars, rndVars>>

RemoveSecret_Delete(c) ==
    /\ At(c, "rm_deleteAppEncrypted")
    /\ IF ioFails
       THEN /\ db' = db
            /\ Return(c, [op |-> "removeSecret", appId |-> calls[c].appId,
                          val |-> StorageError])
       ELSE /\ db' = deleteAppEncrypted(db, calls[c].appId)
            /\ Goto(c, [calls[c] EXCEPT !.pc = "rm_uncache"])
    /\ UNCHANGED <<memVars, autoLockTimer, envVars, rndVars>>

\* removeAppSecrets without uncacheAppSecrets.
RemoveSecret_Uncache_Keeps(c) ==
    /\ At(c, "rm_uncache")
    /\ Goto(c, [calls[c] EXCEPT !.pc = "rm_hasStoredSecrets"])
    /\ UNCHANGED <<db, memVars, autoLockTimer, envVars, rndVars>>

RemoveSecret_Uncache(c) ==
    /\ At(c, "rm_uncache")
    /\ secretsCache' = uncacheAppSecrets(secretsCache, calls[c].appId)
    /\ Goto(c, [calls[c] EXCEPT !.pc = "rm_hasStoredSecrets"])
    /\ UNCHANGED <<db, secretsState, password, masterKey, autoLockTimer, envVars, rndVars>>

RemoveSecret_Read(c) ==
    /\ At(c, "rm_hasStoredSecrets")
    /\ Goto(c, [op |-> "removeSecret", pc |-> "rm_update", appId |-> calls[c].appId,
                stillHasSecrets |-> hasStoredSecrets(db)])
    /\ UNCHANGED <<db, memVars, autoLockTimer, envVars, rndVars>>

RemoveSecret_Update(c) ==
    /\ At(c, "rm_update")
    /\ secretsState' = [secretsState EXCEPT !.hasSecrets = calls[c].stillHasSecrets]
    /\ Return(c, [op |-> "removeSecret", appId |-> calls[c].appId, val |-> Void])
    /\ UNCHANGED <<db, password, masterKey, secretsCache, autoLockTimer, envVars, rndVars>>

\* ---------------------------------------------------------- resetAllSecrets
\* resetAllSecrets without clearStoredSecrets: the store stays as it is.
ResetAll_Clear_KeepsStore(c) ==
    /\ Calls(c, [op |-> "resetAll"])
    /\ secretsState.isInitialized
    /\ Goto(c, [op |-> "resetAll", pc |-> "rs_commit"])
    /\ UNCHANGED <<db, memVars, autoLockTimer, envVars, rndVars>>

ResetAll_Clear(c) ==
    /\ Calls(c, [op |-> "resetAll"])
    /\ secretsState.isInitialized
    /\ IF ioFails
       THEN /\ db' = db
            /\ Return(c, [op |-> "resetAll", val |-> StorageError])
       ELSE /\ db' = clearAll
            /\ Goto(c, [op |-> "resetAll", pc |-> "rs_commit"])
    /\ UNCHANGED <<memVars, autoLockTimer, envVars, rndVars>>

\* secretsVault.clear(), secretsStateInternal.set; the timer is left alone.
ResetAll_Commit(c) ==
    /\ At(c, "rs_commit")
    /\ password' = NullPassword
    /\ masterKey' = Null
    /\ secretsCache' = EmptyCache
    /\ secretsState' = [defaultState EXCEPT !.isInitialized = TRUE]
    /\ ReturnZeroing(c, [op |-> "resetAll", val |-> Void])
    /\ UNCHANGED <<db, autoLockTimer, envVars, rndVars>>

\* ----------------------------------------------------- changeMasterPassword
RECURSIVE collectCached(_, _, _)
\* The loop over appIds as far as it runs without a storage read: while locked
\* getAppSecrets returns undefined, a cached app is taken from the cache.
collectCached(todo, allSecrets, cache) ==
    IF todo = <<>> THEN [todo |-> todo, allSecrets |-> allSecrets]
    ELSE IF secretsState.isLocked
    THEN collectCached(Tail(todo), allSecrets, cache)
    ELSE IF Head(todo) \in DOMAIN cache
    THEN collectCached(Tail(todo),
                       cacheAppSecrets(allSecrets, Head(todo), cache[Head(todo)]),
                       cache)
    ELSE IF masterKey = Null
    THEN collectCached(Tail(todo), allSecrets, cache)
    ELSE [todo |-> todo, allSecrets |-> allSecrets]

\* Object.entries(secrets): the collected apps, in insertion order.
entriesOf(allSecrets) == SelectSeq(AppOrder, LAMBDA a : a \in DOMAIN allSecrets)

\* Where changeMasterPassword stands after a stretch of its loop.
collectedFrame(frame, r) ==
    [frame EXCEPT !.todo = r.todo,
                  !.allSecrets = r.allSecrets,
                  !.encrypted = Null,
                  !.mk = IF r.todo = <<>> THEN Null ELSE masterKey,
                  !.pc = IF r.todo = <<>> THEN "re_setSalt" ELSE "cp_getAppEncrypted"]

\* reencryptWithNewPassword without its second loop: nothing is stored again.
reencryptPc_NoStore(del, puts) ==
    IF del # <<>> THEN "re_deleteAppEncrypted" ELSE "cp_getMasterKey"

\* Where reencryptWithNewPassword stands with these deletes and writes left.
reencryptPc(del, puts) ==
    IF del # <<>> THEN "re_deleteAppEncrypted"
    ELSE IF puts # <<>> THEN "re_encryptAndStore"
    ELSE "cp_getMasterKey"

\* changeMasterPassword rejects with the error of a failed request.
ChangeFails(c) ==
    Return(c, [op |-> "changeMasterPassword", newPassword |-> calls[c].newPassword,
               val |-> StorageError])

ChangePassword_Start(c, newPassword) ==
    /\ Calls(c, [op |-> "changeMasterPassword", newPassword |-> newPassword])
    /\ secretsState.isInitialized
    /\ masterKey # Null =>
          /\ salts < MaxSalt
          /\ nonces + Len(getAllAppIds(db)) <= MaxNonce
    /\ IF masterKey = Null
       THEN Return(c, [op |-> "changeMasterPassword", newPassword |-> newPassword,
                       val |-> JsError("Cannot change password while locked")])
       ELSE Goto(c, [op |-> "changeMasterPassword", pc |-> "cp_getAllAppIds",
                     newPassword |-> newPassword, todo |-> <<>>,
                     allSecrets |-> EmptyCache, encrypted |-> Null, mk |-> Null,
                     rekey |-> Null, del |-> <<>>, puts |-> <<>>, newKey |-> Null])
    /\ UNCHANGED <<db, memVars, autoLockTimer, envVars, rndVars>>

ChangePassword_AppIds(c) ==
    /\ At(c, "cp_getAllAppIds")
    /\ IF ioFails THEN ChangeFails(c)
       ELSE Goto(c, [calls[c] EXCEPT !.todo = getAllAppIds(db), !.pc = "cp_collect"])
    /\ UNCHANGED <<db, memVars, autoLockTimer, envVars, rndVars>>

ChangePassword_Collect(c) ==
    /\ At(c, "cp_collect")
    /\ Goto(c, collectedFrame(calls[c],
                              collectCached(calls[c].todo, calls[c].allSecrets,
                                            secretsCache)))
    /\ UNCHANGED <<db, memVars, autoLockTimer, envVars, rndVars>>

ChangePassword_Read(c) ==
    /\ At(c, "cp_getAppEncrypted")
    /\ Goto(c, [calls[c] EXCEPT
                  !.encrypted = getAppEncrypted(db, Head(calls[c].todo)),
                  !.pc = "cp_decrypt"])
    /\ UNCHANGED <<db, memVars, autoLockTimer, envVars, rndVars>>

\* getAppSecrets resumes (decrypt, cache); the loop goes on.
ChangePassword_Decrypt(c) ==
    /\ At(c, "cp_decrypt")
    /\ LET appId == Head(calls[c].todo)
           decrypted == loadAndDecryptAppSecrets(calls[c].encrypted, appId, calls[c].mk)
           cache == IF decrypted # Null
                    THEN cacheAppSecrets(secretsCache, appId, decrypted)
                    ELSE secretsCache
           allSecrets == IF decrypted # Null
                         THEN cacheAppSecrets(calls[c].allSecrets, appId, decrypted)
                         ELSE calls[c].allSecrets
       IN  /\ secretsCache' = cache
           /\ Goto(c, collectedFrame(calls[c],
                                     collectCached(Tail(calls[c].todo), allSecrets, cache)))
    /\ UNCHANGED <<db, secretsState, password, masterKey, autoLockTimer, envVars, rndVars>>

\* reencryptWithNewPassword: generateSalt, setSalt, deriveMasterKey
Reencrypt_SetSalt(c) ==
    /\ At(c, "re_setSalt")
    /\ salts < MaxSalt
    /\ salts' = salts + 1
    /\ IF ioFails
       THEN /\ db' = db
            /\ ChangeFails(c)
       ELSE /\ db' = setSalt(db, generateSalt(salts + 1))
            /\ Goto(c, [calls[c] EXCEPT
                          !.rekey = deriveMasterKey(calls[c].newPassword,
                                                    generateSalt(salts + 1)),
                          !.pc = "re_getAllAppIds"])
    /\ UNCHANGED <<memVars, autoLockTimer, envVars, nonces>>

Reencrypt_AppIds(c) ==
    /\ At(c, "re_getAllAppIds")
    /\ LET del == getAllAppIds(db)
           puts == entriesOf(calls[c].allSecrets)
       IN  IF ioFails THEN ChangeFails(c)
           ELSE Goto(c, [calls[c] EXCEPT !.del = del, !.puts = puts,
                                         !.pc = reencryptPc(del, puts)])
    /\ UNCHANGED <<db, memVars, autoLockTimer, envVars, rndVars>>

Reencrypt_Delete(c) ==
    /\ At(c, "re_deleteAppEncrypted")
    /\ IF ioFails
       THEN /\ db' = db
            /\ ChangeFails(c)
       ELSE /\ db' = deleteAppEncrypted(db, Head(calls[c].del))
            /\ Goto(c, [calls[c] EXCEPT
                          !.del = Tail(@),
                          !.pc = reencryptPc(Tail(calls[c].del), calls[c].puts)])
    /\ UNCHANGED <<memVars, autoLockTimer, envVars, rndVars>>

\* encryptAndStoreAppSecrets(appId, appSecrets, newMasterKey)
Reencrypt_Store(c) ==
    /\ At(c, "re_encryptAndStore")
    /\ nonces < MaxNonce
    /\ nonces' = nonces + 1
    /\ LET appId == Head(calls[c].puts)
           sealed == encryptSecrets(calls[c].allSecrets[appId],
                                    deriveDEK(calls[c].rekey, appId), nonces + 1)
       IN  IF ioFails
           THEN /\ db' = db
                /\ ChangeFails(c)
           ELSE /\ db' = setAppEncrypted(db, appId, sealed.ciphertext, sealed.nonce)
                /\ Goto(c, [calls[c] EXCEPT
                              !.puts = Tail(@),
                              !.pc = reencryptPc(<<>>, Tail(calls[c].puts))])
    /\ UNCHANGED <<memVars, autoLockTimer, envVars, salts>>

ChangePassword_GetMasterKey(c) ==
    /\ At(c, "cp_getMasterKey")
    /\ Goto(c, [calls[c] EXCEPT !.newKey = getMasterKey(db, calls[c].newPassword),
                                !.pc = "cp_commit"])
    /\ UNCHANGED <<db, memVars, autoLockTimer, envVars, rndVars>>

\* setMasterKey that replaces the key and leaves the old buffer as it is.
ChangePassword_Commit_NoZero(c) ==
    /\ At(c, "cp_commit")
    /\ password' = calls[c].newPassword
    /\ masterKey' = calls[c].newKey
    /\ Return(c, [op |-> "changeMasterPassword",
                  newPassword |-> calls[c].newPassword, val |-> Void])
    /\ UNCHANGED <<db, secretsState, secretsCache, autoLockTimer, envVars, rndVars>>

\* setPassword(newPassword), setMasterKey(newMasterKey)
ChangePassword_Commit(c) ==
    /\ At(c, "cp_commit")
    /\ password' = calls[c].newPassword
    /\ masterKey' = calls[c].newKey
    /\ ReturnZeroing(c, [op |-> "changeMasterPassword",
                         newPassword |-> calls[c].newPassword, val |-> Void])
    /\ UNCHANGED <<db, secretsState, secretsCache, autoLockTimer, envVars, rndVars>>

\* ------------------------------------------------- exportEncryptedSecrets
\* getAllAppsEncrypted: the entries "app:<id>" that have data and a nonce.
getAllAppsEncrypted(store) ==
    LET ids == {a \in AppIds : /\ AppKey(a) \in DOMAIN store
                               /\ "nonce" \in DOMAIN store[AppKey(a)]}
    IN  [a \in ids |-> [ciphertext |-> store[AppKey(a)].data,
                        nonce |-> store[AppKey(a)].nonce]]

EmptyExport == [version |-> 3, salt |-> Null, apps |-> [a \in {} |-> Null]]

Export_GetSalt(c) ==
    /\ Calls(c, [op |-> "export"])
    /\ secretsState.isInitialized
    /\ Goto(c, [op |-> "export", pc |-> "ex_getAll", salt |-> getSalt(db)])
    /\ UNCHANGED <<db, memVars, autoLockTimer, envVars, rndVars>>

\* getAllAppsEncrypted, then the object; a failed request gives the empty one.
Export_GetAll(c) ==
    /\ At(c, "ex_getAll")
    /\ LET allEncrypted == getAllAppsEncrypted(db)
           exported ==
               IF ioFails THEN EmptyExport
               ELSE [version |-> 3,
                     salt |-> IF calls[c].salt # Null THEN to_base64(calls[c].salt)
                              ELSE Null,
                     apps |-> [a \in DOMAIN allEncrypted |->
                                 [ciphertext |-> to_base64(allEncrypted[a].ciphertext),
                                  nonce |-> to_base64(allEncrypted[a].nonce)]]]
       IN  /\ file' = exported
           /\ Return(c, [op |-> "export", val |-> exported])
    /\ UNCHANGED <<db, memVars, autoLockTimer, now, ioFails, persistSession, rndVars>>

\* ------------------------------------------------- importEncryptedSecrets
\* Object.entries(data.apps) that leaves out every entity but the first id.
appEntries_FirstOnly(data) ==
    SelectSeq(AppOrder, LAMBDA a : a \in DOMAIN data.apps /\ a = AppOrder[1])

\* Object.entries(data.apps), in the order of the file.
appEntries(data) == SelectSeq(AppOrder, LAMBDA a : a \in DOMAIN data.apps)

\* What the user picks to import: the exported file as it is, or edited.
Malformed == [t |-> "text"]
Edits == {"exported", "version2", "nosalt", "badsalt", "badnonce"}
edited(exported, name) ==
    LET last == appEntries(exported)[Len(appEntries(exported))]
    IN  IF name = "version2" THEN [exported EXCEPT !.version = 2]
        ELSE IF name = "nosalt" THEN [exported EXCEPT !.salt = Null]
        ELSE IF name = "badsalt" THEN [exported EXCEPT !.salt = Malformed]
        ELSE IF name = "badnonce" /\ appEntries(exported) # <<>>
        THEN [exported EXCEPT !.apps[last].nonce = Malformed]
        ELSE IF name = "swapped" /\ Len(appEntries(exported)) = 2
        THEN [exported EXCEPT !.apps = [a \in DOMAIN @ |->
                                          IF a = AppOrder[1] THEN @[AppOrder[2]]
                                          ELSE @[AppOrder[1]]]]
        ELSE exported

\* importEncryptedSecrets without its test of the version.
Import_Start_AnyVersion(c, name) ==
    /\ Calls(c, [op |-> "import", file |-> name])
    /\ secretsState.isInitialized
    /\ file # Null
    /\ LET data == edited(file, name)
       IN  IF data.salt = Null
           THEN Return(c, [op |-> "import", file |-> name, val |-> JsFalse])
           ELSE Goto(c, [op |-> "import", pc |-> "im_clearAll", file |-> name,
                         data |-> data, todo |-> <<>>])
    /\ UNCHANGED <<db, memVars, autoLockTimer, envVars, rndVars>>

Import_Start(c, name) ==
    /\ Calls(c, [op |-> "import", file |-> name])
    /\ secretsState.isInitialized
    /\ file # Null
    /\ LET data == edited(file, name)
       IN  IF data.version # 3 \/ data.salt = Null
           THEN Return(c, [op |-> "import", file |-> name, val |-> JsFalse])
           ELSE Goto(c, [op |-> "import", pc |-> "im_clearAll", file |-> name,
                         data |-> data, todo |-> <<>>])
    /\ UNCHANGED <<db, memVars, autoLockTimer, envVars, rndVars>>

\* importEncryptedSecrets without its clearAll: the old records stay.
Import_Clear_Keeps(c) ==
    /\ At(c, "im_clearAll")
    /\ db' = db
    /\ IF ioFails
       THEN Return(c, [op |-> "import", file |-> calls[c].file, val |-> JsFalse])
       ELSE Goto(c, [calls[c] EXCEPT !.pc = "im_setSalt"])
    /\ UNCHANGED <<memVars, autoLockTimer, envVars, rndVars>>

\* clearAll
Import_Clear(c) ==
    /\ At(c, "im_clearAll")
    /\ IF ioFails
       THEN /\ db' = db
            /\ Return(c, [op |-> "import", file |-> calls[c].file, val |-> JsFalse])
       ELSE /\ db' = clearAll
            /\ Goto(c, [calls[c] EXCEPT !.pc = "im_setSalt"])
    /\ UNCHANGED <<memVars, autoLockTimer, envVars, rndVars>>

\* base64ToUint8Array(data.salt), setSalt
Import_SetSalt(c) ==
    /\ At(c, "im_setSalt")
    /\ LET salt == from_base64(calls[c].data.salt)
           todo == appEntries(calls[c].data)
       IN  IF salt = Thrown \/ ioFails
           THEN /\ db' = db
                /\ Return(c, [op |-> "import", file |-> calls[c].file, val |-> JsFalse])
           ELSE /\ db' = setSalt(db, salt)
                /\ IF todo = <<>>
                   THEN Return(c, [op |-> "import", file |-> calls[c].file,
                                   val |-> JsTrue])
                   ELSE Goto(c, [calls[c] EXCEPT !.todo = todo, !.pc = "im_setApp"])
    /\ UNCHANGED <<memVars, autoLockTimer, envVars, rndVars>>

\* setAppEncrypted(appId, base64ToUint8Array(ciphertext), base64ToUint8Array(nonce))
Import_SetApp(c) ==
    /\ At(c, "im_setApp")
    /\ LET appId == Head(calls[c].todo)
           ciphertext == from_base64(calls[c].data.apps[appId].ciphertext)
           nonce == from_base64(calls[c].data.apps[appId].nonce)
       IN  IF ciphertext = Thrown \/ nonce = Thrown \/ ioFails
           THEN /\ db' = db
                /\ Return(c, [op |-> "import", file |-> calls[c].file, val |-> JsFalse])
           ELSE /\ db' = setAppEncrypted(db, appId, ciphertext, nonce)
                /\ IF Tail(calls[c].todo) = <<>>
                   THEN Return(c, [op |-> "import", file |-> calls[c].file,
                                   val |-> JsTrue])
                   ELSE Goto(c, [calls[c] EXCEPT !.todo = Tail(@)])
    /\ UNCHANGED <<memVars, autoLockTimer, envVars, rndVars>>

\* ------------------------------------------------------------- tampering
\* Somebody alters the stored record of appId: a bit of its ciphertext, so
\* that the tag no longer matches, or its nonce.
altered(entry, part) ==
    IF part = "ciphertext"
    THEN [entry EXCEPT !.data = [@ EXCEPT !.mac = FALSE]]
    ELSE [entry EXCEPT !.nonce = [@ EXCEPT !.nonce = 0 - @]]

Tamper(appId, part) ==
    /\ Does([op |-> "tamper", appId |-> appId, part |-> part])
    /\ AppKey(appId) \in DOMAIN db
    /\ db' = [db EXCEPT ![AppKey(appId)] = altered(@, part)]
    /\ Reports([op |-> "tamper", appId |-> appId, part |-> part, val |-> Void])
    /\ UNCHANGED <<memVars, autoLockTimer, envVars, calls, rndVars>>

\* ------------------------------------------------------- storage failures
\* IndexedDB becomes unavailable (its requests reject), and available again.
StorageFault ==
    /\ Does([op |-> "fault"])
    /\ ~ioFails
    /\ ioFails' = TRUE
    /\ Reports([op |-> "fault", val |-> Void])
    /\ UNCHANGED <<db, memVars, autoLockTimer, now, file, persistSession, calls, rndVars>>

StorageRecover ==
    /\ Does([op |-> "recover"])
    /\ ioFails
    /\ ioFails' = FALSE
    /\ Reports([op |-> "recover", val |-> Void])
    /\ UNCHANGED <<db, memVars, autoLockTimer, now, file, persistSession, calls, rndVars>>

\* ------------------------------------------------------------ UnlockModal
\* The user sets the checkbox of the unlock dialog, which is shown once secrets
\* exist. handleSubmit hands the flag to unlockSecrets(password, persistSession),
\* whose only parameter is the password.
SetPersistSession(checked) ==
    /\ Does([op |-> "persistSession", checked |-> checked])
    /\ secretsState.hasSecrets
    /\ persistSession' = checked
    /\ Reports([op |-> "persistSession", checked |-> checked, val |-> Void])
    /\ UNCHANGED <<db, memVars, autoLockTimer, now, ioFails, file, calls, rndVars>>

\* ------------------------------------------------------------ page reload
\* The page is loaded again: the module state is built anew, IndexedDB stays.
PageReload ==
    /\ Does([op |-> "reload"])
    /\ secretsState' = defaultState
    /\ password' = NullPassword
    /\ masterKey' = Null
    /\ secretsCache' = EmptyCache
    /\ autoLockTimer' = Null
    /\ persistSession' = FALSE
    /\ calls' = [c \in Slots |-> Idle]
    /\ Silent
    /\ UNCHANGED <<db, now, ioFails, file, rndVars>>

\* ------------------------------------------------------------------ specs
\* The steps of the calls, with passwords, app ids and updates from P, A and U.
CallStep(P, A, U) ==
    \/ \E c \in Slots : Initialize_Read(c)
    \/ \E c \in Slots : Initialize_Update(c)
    \/ \E c \in Slots, p \in P : Unlock_Start(c, p)
    \/ \E c \in Slots : Unlock_InitSalt_Get(c)
    \/ \E c \in Slots : Unlock_InitSalt_Set(c)
    \/ \E c \in Slots : Unlock_Verify_GetSalt(c)
    \/ \E c \in Slots : Unlock_Verify_AppIds(c)
    \/ \E c \in Slots : Unlock_Verify_Decrypt(c)
    \/ \E c \in Slots : Unlock_GetMasterKey(c)
    \/ \E c \in Slots : Unlock_Commit(c)
    \/ \E c \in Slots, a \in A : GetSecret_Start(c, a, "client_secret")
    \/ \E c \in Slots : GetSecret_Read(c)
    \/ \E c \in Slots : GetSecret_Decrypt(c)
    \/ \E c \in Slots, a \in A, u \in U : SetSecret_Start(c, a, u)
    \/ \E c \in Slots : SetSecret_Read(c)
    \/ \E c \in Slots : SetSecret_Merge(c)
    \/ \E c \in Slots : SetSecret_Write(c)
    \/ \E c \in Slots : SetSecret_Commit(c)
    \/ \E c \in Slots, a \in A : RemoveSecret_Start(c, a)
    \/ \E c \in Slots : RemoveSecret_Delete(c)
    \/ \E c \in Slots : RemoveSecret_Uncache(c)
    \/ \E c \in Slots : RemoveSecret_Read(c)
    \/ \E c \in Slots : RemoveSecret_Update(c)
    \/ \E c \in Slots, p \in P : ChangePassword_Start(c, p)
    \/ \E c \in Slots : ChangePassword_AppIds(c)
    \/ \E c \in Slots : ChangePassword_Collect(c)
    \/ \E c \in Slots : ChangePassword_Read(c)
    \/ \E c \in Slots : ChangePassword_Decrypt(c)
    \/ \E c \in Slots : Reencrypt_SetSalt(c)
    \/ \E c \in Slots : Reencrypt_AppIds(c)
    \/ \E c \in Slots : Reencrypt_Delete(c)
    \/ \E c \in Slots : Reencrypt_Store(c)
    \/ \E c \in Slots : ChangePassword_GetMasterKey(c)
    \/ \E c \in Slots : ChangePassword_Commit(c)
    \/ \E c \in Slots : ResetAll_Clear(c)
    \/ \E c \in Slots : ResetAll_Commit(c)

\* Every call and event of the vault; how long the timer takes is left open.
Next ==
    \/ CallStep(Passwords, AppIds, Updates)
    \/ Lock
    \/ AutoLock
    \/ ResetAutoLockTimer
    \/ PageReload

\* The same for callers that do not wait, with fewer inputs.
NextConcurrent ==
    \/ CallStep(Passwords, {AppOrder[1]}, {[client_secret |-> "abc"]})
    \/ Lock
    \/ AutoLock
    \/ ResetAutoLockTimer
    \/ PageReload

\* One caller that awaits every call; nothing happens while a call runs.
Init == Loaded(<<Serial>>)
Spec == Init /\ [][Next]_vars

\* Calls and events while other calls are in flight.
InitConcurrent == Loaded(<<Concurrent(MaxCalls)>>)
SpecConcurrent == InitConcurrent /\ [][NextConcurrent]_vars

\* ------------------------------------------------------------- round trip
\* The calls of a scripted caller.
initialize == [op |-> "initialize"]
unlock(p) == [op |-> "unlock", password |-> p]
lock == [op |-> "lock"]
setSecret(id, B) == [op |-> "setSecret", appId |-> id, newSecrets |-> B]
getSecret(id, f) == [op |-> "getSecret", appId |-> id, key |-> f]

RoundTrip(P, id, B) ==
    <<initialize, unlock(P), setSecret(id, B), lock, unlock(P),
      getSecret(id, "client_secret")>>

InitRoundTrip ==
    \E P \in Passwords, id \in AppIds, B \in Updates : Loaded(RoundTrip(P, id, B))

NextRoundTrip ==
    \/ Initialize_Read(1)
    \/ Initialize_Update(1)
    \/ \E p \in Passwords : Unlock_Start(1, p)
    \/ Unlock_InitSalt_Get(1)
    \/ Unlock_InitSalt_Set(1)
    \/ Unlock_Verify_GetSalt(1)
    \/ Unlock_Verify_AppIds(1)
    \/ Unlock_Verify_Decrypt(1)
    \/ Unlock_GetMasterKey(1)
    \/ Unlock_Commit(1)
    \/ \E a \in AppIds, u \in Updates : SetSecret_Start(1, a, u)
    \/ SetSecret_Read(1)
    \/ SetSecret_Merge(1)
    \/ SetSecret_Write(1)
    \/ SetSecret_Commit(1)
    \/ Lock
    \/ \E a \in AppIds : GetSecret_Start(1, a, "client_secret")
    \/ GetSecret_Read(1)
    \/ GetSecret_Decrypt(1)

SpecRoundTrip == InitRoundTrip /\ [][NextRoundTrip]_vars

\* C1: from an initialized empty vault, unlock(P), setSecret(id, B), lock(),
\* unlock(P): the second unlock returns true, and getSecret(id, f) then
\* returns B[f] for every field f of B.
C1_RoundTrip ==
    Len(hist) = 6 =>
        LET B == hist[3].newSecrets
        IN  /\ hist[5].val = JsTrue
            /\ \A f \in DOMAIN B :
                   hist[6].key = f => hist[6].val = JsString(B[f])

C1_Witness ==
    /\ Len(hist) = 6
    /\ hist[3].newSecrets = [client_secret |-> "xyz"]
    /\ hist[6].val = JsString("xyz")

\* -------------------------------------------------- wrong-password rejection
\* The stored entity records, and the password whose key sealed them all.
HasEntityRecord == getAllAppIds(db) # <<>>
SealedUnder(w) ==
    \A a \in AppIds :
        AppKey(a) \in DOMAIN db => db[AppKey(a)].data.k.mk.pw = w

\* A step of a call unlock(w) on a vault that is locked and holds no key.
UnlockOfLocked(w) ==
    /\ \/ calls[1].op = "unlock" /\ calls[1].password = w
       \/ calls'[1].op = "unlock" /\ calls'[1].password = w
    /\ secretsState.isLocked
    /\ masterKey = Null
    /\ password = NullPassword

\* The step changes nothing, and if it returns, it returns false.
Rejects(w) ==
    /\ UNCHANGED <<db, secretsState, password, masterKey, secretsCache, autoLockTimer>>
    /\ ret' \in {NoRet, [op |-> "unlock", password |-> w, val |-> JsFalse]}

\* C2 as stated: with an entity record stored, unlock(w) for every password w
\* other than the one used at setup returns false, retains no key and
\* leaves the vault locked, with cache, timer and store unchanged.
C2_WrongPasswordRejected_Original ==
    [][\A w \in Passwords :
          UnlockOfLocked(w) /\ HasEntityRecord /\ w # setupPassword => Rejects(w)]_vars

\* C2, amended: the same for every password w other than the one the stored
\* records are sealed under, which is the setup password only until
\* changeMasterPassword replaces it.
C2_WrongPasswordRejected ==
    [][\A w \in Passwords :
          UnlockOfLocked(w) /\ HasEntityRecord /\ ~SealedUnder(w) => Rejects(w)]_vars

C2_Witness ==
    /\ ret.op = "unlock"
    /\ ret.val = JsFalse
    /\ HasEntityRecord
    /\ ~SealedUnder(ret.password)
    /\ secretsState.isLocked
    /\ masterKey = Null

\* ------------------------------------------------------------ the invariants
\* C3: in every reachable state, calls interleaved at their awaits included,
\* the master key is non-null if and only if isLocked is false.
C3_KeyIffUnlocked == (masterKey # Null) <=> ~secretsState.isLocked

\* C4: in every reachable state, the cache is empty whenever the vault is
\* locked, also when lock() or the timer ran while a call was suspended.
C4_CacheEmptyWhenLocked == secretsState.isLocked => secretsCache = EmptyCache

\* ------------------------------------------------------------------ at rest
\* What a store entry holds: random bytes (salt, nonce) and secretbox output.
IsSaltEntry(entry) ==
    /\ DOMAIN entry = {"key", "data"}
    /\ entry.key = SaltKey
    /\ entry.data.t = "bytes"
IsAppEntry(entry) ==
    /\ DOMAIN entry = {"key", "data", "nonce"}
    /\ \E a \in AppIds : entry.key = AppKey(a)
    /\ entry.data.t = "box"
    /\ entry.nonce.t = "bytes"

\* C5: the store holds nothing but the salt under "salt" and {nonce,
\* ciphertext} records under "app:<id>": never a password, a master key, a
\* DEK or a plaintext bundle, and no other key.
C5_AtRest ==
    \A k \in DOMAIN db :
        /\ db[k].key = k
        /\ k = SaltKey \/ \E a \in AppIds : k = AppKey(a)
        /\ IF k = SaltKey THEN IsSaltEntry(db[k]) ELSE IsAppEntry(db[k])

C5_Witness ==
    /\ SaltKey \in DOMAIN db
    /\ \E a \in AppIds : AppKey(a) \in DOMAIN db
    /\ ret.op = "changeMasterPassword"
    /\ ret.val = Void

\* ------------------------------------------------------- calls when locked
\* A call of one of ops starts in this step: it is suspended at its first
\* await, or it has returned at once.
Starts(ops) ==
    \/ \E c \in Slots : IsIdle(c) /\ calls'[c].op \in ops
    \/ calls' = calls /\ ret'.op \in ops

\* C6: setSecret, removeSecret and changeMasterPassword on a locked vault fail
\* with an error for the caller and change nothing in the store or in memory.
C6_LockedMutationRejected ==
    [][secretsState.isLocked
         /\ Starts({"setSecret", "removeSecret", "changeMasterPassword"})
       => /\ ret'.op \in {"setSecret", "removeSecret", "changeMasterPassword"}
          /\ ret'.val.t = "error"
          /\ UNCHANGED <<db, secretsState, password, masterKey, secretsCache,
                         autoLockTimer, calls>>]_vars

\* C9: getSecret on a locked vault returns undefined, whatever the entity
\* and field, throws nothing and changes nothing: not the store, the cache,
\* the master key, isLocked, hasSecrets or the timer.
C9_GetSecretWhenLocked ==
    [][secretsState.isLocked /\ Starts({"getSecret"})
       => /\ ret'.op = "getSecret"
          /\ ret'.val = Undefined
          /\ UNCHANGED <<db, secretsState, password, masterKey, secretsCache,
                         autoLockTimer, calls>>]_vars

C9_Witness ==
    /\ ret.op = "getSecret"
    /\ ret.val = Undefined
    /\ secretsState.isLocked
    /\ AppKey(ret.appId) \in DOMAIN db

\* ---------------------------------------------------------- password change
changeMasterPassword(p) == [op |-> "changeMasterPassword", newPassword |-> p]

\* The entities saved before the password changes: none, one, or both.
Savings ==
    {<<>>,
     <<setSecret(AppOrder[1], [client_secret |-> "abc"])>>,
     <<setSecret(AppOrder[2], [client_secret |-> "xyz"])>>,
     <<setSecret(AppOrder[1], [client_secret |-> "abc"]),
       setSecret(AppOrder[2], [client_secret |-> "xyz"])>>}

\* Set up with oldPw, save, change to newPw, lock, unlock(w), read all.
PasswordChange(oldPw, saved, newPw, w) ==
    <<initialize, unlock(oldPw)>> \o saved \o
    <<changeMasterPassword(newPw), lock, unlock(w),
      getSecret(AppOrder[1], "client_secret"),
      getSecret(AppOrder[2], "client_secret")>>

InitPasswordChange ==
    \E oldPw \in Passwords, newPw \in Passwords, w \in Passwords, saved \in Savings :
        Loaded(PasswordChange(oldPw, saved, newPw, w))

NextPasswordChange ==
    \/ Initialize_Read(1)
    \/ Initialize_Update(1)
    \/ \E p \in Passwords : Unlock_Start(1, p)
    \/ Unlock_InitSalt_Get(1)
    \/ Unlock_InitSalt_Set(1)
    \/ Unlock_Verify_GetSalt(1)
    \/ Unlock_Verify_AppIds(1)
    \/ Unlock_Verify_Decrypt(1)
    \/ Unlock_GetMasterKey(1)
    \/ Unlock_Commit(1)
    \/ \E a \in AppIds, u \in Updates : SetSecret_Start(1, a, u)
    \/ SetSecret_Read(1)
    \/ SetSecret_Merge(1)
    \/ SetSecret_Write(1)
    \/ SetSecret_Commit(1)
    \/ \E p \in Passwords : ChangePassword_Start(1, p)
    \/ ChangePassword_AppIds(1)
    \/ ChangePassword_Collect(1)
    \/ Reencrypt_SetSalt(1)
    \/ Reencrypt_AppIds(1)
    \/ Reencrypt_Delete(1)
    \/ Reencrypt_Store(1)
    \/ ChangePassword_GetMasterKey(1)
    \/ ChangePassword_Commit(1)
    \/ Lock
    \/ \E a \in AppIds : GetSecret_Start(1, a, "client_secret")
    \/ GetSecret_Read(1)
    \/ GetSecret_Decrypt(1)

SpecPasswordChange == InitPasswordChange /\ [][NextPasswordChange]_vars

\* The finished history: where the change, the unlock after it and the reads
\* stand in it, the passwords, and what was saved for an entity.
Changed == script = <<>> /\ NoCall
ChangeAt == Len(hist) - 4
OldPw == hist[2].password
NewPw == hist[ChangeAt].newPassword
UnlockAfter == hist[ChangeAt + 2]
ReadAfter(a) == IF a = AppOrder[1] THEN hist[ChangeAt + 3] ELSE hist[ChangeAt + 4]
SavedFor(a) == {hist[i].newSecrets : i \in {j \in 3..(ChangeAt - 1) : hist[j].appId = a}}

\* Every entity saved under the old password reads as it was saved.
DataPreserved ==
    UnlockAfter.password = NewPw =>
        /\ UnlockAfter.val = JsTrue
        /\ \A a \in AppIds : \A B \in SavedFor(a) :
               ReadAfter(a).val = JsString(B.client_secret)

\* C7 as stated: after changeMasterPassword(newPw), lock() and unlock(newPw),
\* every entity readable before reads the same, and unlock(oldPw) returns
\* false (oldPw being another password than newPw).
C7_PasswordChange_Original ==
    Changed =>
        /\ DataPreserved
        /\ UnlockAfter.password = OldPw /\ NewPw # OldPw
              => UnlockAfter.val = JsFalse

\* C7, amended: unlock(oldPw) returns false if newPw differs from oldPw and
\* an entity record is stored; the rest as stated.
C7_PasswordChange ==
    Changed =>
        /\ DataPreserved
        /\ UnlockAfter.password = OldPw /\ NewPw # OldPw /\ HasEntityRecord
              => UnlockAfter.val = JsFalse

C7_Witness ==
    /\ Changed
    /\ NewPw # OldPw
    /\ UnlockAfter = [op |-> "unlock", password |-> NewPw, val |-> JsTrue, at |-> 0]
    /\ ReadAfter(AppOrder[1]).val = JsString("abc")
    /\ ReadAfter(AppOrder[2]).val = JsString("xyz")

\* ---------------------------------------------------------- tamper detection
tamper(id, part) == [op |-> "tamper", appId |-> id, part |-> part]
Parts == {"ciphertext", "nonce"}

\* The record is altered while the vault is locked (unlock verifies against
\* the first record, so it is the second that is altered), or while the vault
\* is unlocked and the entity is not in the cache.
TamperLocked(P, part) ==
    <<initialize, unlock(P),
      setSecret(AppOrder[1], [client_secret |-> "abc"]),
      setSecret(AppOrder[2], [client_secret |-> "xyz"]),
      lock, tamper(AppOrder[2], part), unlock(P),
      getSecret(AppOrder[2], "client_secret")>>
TamperUnlocked(P, id, part) ==
    <<initialize, unlock(P), setSecret(id, [client_secret |-> "abc"]),
      lock, unlock(P), tamper(id, part), getSecret(id, "client_secret")>>

InitTamper ==
    \E P \in Passwords, id \in AppIds, part \in Parts :
        \/ Loaded(TamperLocked(P, part))
        \/ Loaded(TamperUnlocked(P, id, part))

NextTamper ==
    \/ Initialize_Read(1)
    \/ Initialize_Update(1)
    \/ \E p \in Passwords : Unlock_Start(1, p)
    \/ Unlock_InitSalt_Get(1)
    \/ Unlock_InitSalt_Set(1)
    \/ Unlock_Verify_GetSalt(1)
    \/ Unlock_Verify_AppIds(1)
    \/ Unlock_Verify_Decrypt(1)
    \/ Unlock_GetMasterKey(1)
    \/ Unlock_Commit(1)
    \/ \E a \in AppIds, u \in Updates : SetSecret_Start(1, a, u)
    \/ SetSecret_Read(1)
    \/ SetSecret_Merge(1)
    \/ SetSecret_Write(1)
    \/ SetSecret_Commit(1)
    \/ Lock
    \/ \E a \in AppIds, part \in Parts : Tamper(a, part)
    \/ \E a \in AppIds : GetSecret_Start(1, a, "client_secret")
    \/ GetSecret_Read(1)
    \/ GetSecret_Decrypt(1)

SpecTamper == InitTamper /\ [][NextTamper]_vars

\* C8: once an entity's stored ciphertext or nonce is altered, the next
\* getSecret for it that is not served from the cache fails with an error,
\* which the caller can tell from undefined, the result for no record.
C8_TamperDetected ==
    script = <<>> /\ NoCall => hist[Len(hist)].val.t = "error"

\* It does not return the plaintext either way.
C8_NoPlaintext ==
    script = <<>> /\ NoCall => hist[Len(hist)].val.t # "string"

\* ------------------------------------------------------------------ auto-lock
notifyActivity == [op |-> "notifyActivity"]
autolock == [op |-> "autolock"]

\* Unlock, save, perhaps signal activity, and wait until the timer fires.
Waiting(P, signals) ==
    <<initialize, unlock(P), setSecret(AppOrder[1], [client_secret |-> "abc"])>>
    \o signals \o <<autolock>>

InitAutoLock ==
    \E P \in Passwords, signals \in {<<>>, <<notifyActivity>>} :
        Loaded(Waiting(P, signals))

NextAutoLock ==
    \/ Initialize_Read(1)
    \/ Initialize_Update(1)
    \/ \E p \in Passwords : Unlock_Start(1, p)
    \/ Unlock_InitSalt_Get(1)
    \/ Unlock_InitSalt_Set(1)
    \/ Unlock_GetMasterKey(1)
    \/ Unlock_Commit(1)
    \/ \E a \in AppIds, u \in Updates : SetSecret_Start(1, a, u)
    \/ SetSecret_Read(1)
    \/ SetSecret_Merge(1)
    \/ SetSecret_Write(1)
    \/ SetSecret_Commit(1)
    \/ ResetAutoLockTimer
    \/ AutoLock_Due
    \/ Tick

SpecAutoLock == InitAutoLock /\ [][NextAutoLock]_vars

\* The unlock or activity signal that armed the timer which fired as hist[i].
ArmedBy(i) ==
    CHOOSE j \in 1..(i - 1) :
        /\ hist[j].op \in {"unlock", "notifyActivity"}
        /\ \A k \in (j + 1)..(i - 1) : hist[k].op \notin {"unlock", "notifyActivity"}

\* C10: the timer fires a full timeout after the unlock, or after the last
\* notifyActivity() if there was one (so not at the deadline it cancelled),
\* and locks the vault: isLocked, no key, empty cache. Until then the vault
\* stays unlocked no longer than its deadline.
C10_AutoLock ==
    /\ \A i \in 1..Len(hist) :
           hist[i].op = "autolock" =>
               hist[i].at = hist[ArmedBy(i)].at + AutoLockTicks
    /\ ret.op = "autolock" =>
           /\ secretsState.isLocked
           /\ masterKey = Null
           /\ password = NullPassword
           /\ secretsCache = EmptyCache
           /\ autoLockTimer = Null
    /\ ~secretsState.isLocked =>
           /\ autoLockTimer # Null
           /\ now <= autoLockTimer.due

\* The timer fired after the deadline that the activity signal cancelled.
C10_Witness ==
    /\ ret.op = "autolock"
    /\ Len(hist) = 5
    /\ hist[4].op = "notifyActivity"
    /\ hist[5].at > hist[2].at + AutoLockTicks

\* ------------------------------------------------------ the timer invariant
\* C11: in every reachable state a timer is pending if and only if the vault
\* is unlocked: unlock arms it, and lock(), expiry and resetAll() disarm it.
C11_TimerIffUnlocked == (autoLockTimer # Null) <=> ~secretsState.isLocked

\* ------------------------------------------------------------ lock, twice
resetAll == [op |-> "resetAll"]

\* What the caller does before it locks twice: nothing, an unlock, an unlock
\* and a save, or an unlock and a reset.
BeforeLock ==
    {<<>>} \cup {<<unlock(P)>> : P \in Passwords}
           \cup {<<unlock(P), setSecret(id, B)>> :
                    P \in Passwords, id \in AppIds, B \in Updates}
           \cup {<<unlock(P), resetAll>> : P \in Passwords}

InitLockTwice == \E pre \in BeforeLock : Loaded(<<initialize>> \o pre \o <<lock, lock>>)

NextLockTwice ==
    \/ Initialize_Read(1)
    \/ Initialize_Update(1)
    \/ \E p \in Passwords : Unlock_Start(1, p)
    \/ Unlock_InitSalt_Get(1)
    \/ Unlock_InitSalt_Set(1)
    \/ Unlock_GetMasterKey(1)
    \/ Unlock_Commit(1)
    \/ \E a \in AppIds, u \in Updates : SetSecret_Start(1, a, u)
    \/ SetSecret_Read(1)
    \/ SetSecret_Merge(1)
    \/ SetSecret_Write(1)
    \/ SetSecret_Commit(1)
    \/ ResetAll_Clear(1)
    \/ ResetAll_Commit(1)
    \/ Lock

SpecLockTwice == InitLockTwice /\ [][NextLockTwice]_vars

\* C12: lock() returns without an error and leaves the vault locked, the
\* cache empty, no master key and the store as it was; a lock() right after a
\* lock() changes nothing at all, and a lock() of a locked vault leaves
\* isLocked, the cache, the master key and the store as they were.
C12_IdempotentLock ==
    [][ret'.op = "lock" =>
         /\ ret'.val = Void
         /\ secretsState'.isLocked
         /\ secretsCache' = EmptyCache
         /\ masterKey' = Null
         /\ db' = db
         /\ ret.op = "lock" =>
               UNCHANGED <<db, secretsState, password, masterKey, secretsCache,
                           autoLockTimer, calls>>
         /\ secretsState.isLocked =>
               UNCHANGED <<db, secretsState, masterKey, secretsCache>>]_vars

\* The second lock() has returned, after an unlock and a save.
C12_Witness ==
    /\ Len(hist) = 5
    /\ hist[3].op = "setSecret"
    /\ hist[4].op = "lock"
    /\ hist[5].op = "lock"
    /\ secretsState.isLocked
    /\ HasEntityRecord

\* ----------------------------------------------------------------- resetAll
\* C13: when resetAll() has returned, the store holds no salt and no entity
\* record, and the vault has no master key, no password, an empty cache,
\* isLocked true and hasSecrets false; an unlock(p) that comes next takes the
\* first-time-setup path.
C13_ResetAll ==
    /\ [](ret.op = "resetAll" =>
            /\ ret.val = Void
            /\ db = clearAll
            /\ ~hasStoredSecrets(db)
            /\ masterKey = Null
            /\ password = NullPassword
            /\ secretsCache = EmptyCache
            /\ secretsState.isLocked
            /\ ~secretsState.hasSecrets)
    /\ [][ret.op = "resetAll" /\ Starts({"unlock"}) =>
            /\ calls'[1].op = "unlock"
            /\ calls'[1].firstTime
            /\ calls'[1].pc = "ul_getSalt"]_vars

\* resetAll() has returned on a vault that was unlocked (its timer was armed)
\* and had saved a record (a nonce was drawn).
C13_Witness ==
    /\ ret.op = "resetAll"
    /\ nonces > 0
    /\ autoLockTimer # Null
    /\ db = clearAll

\* ------------------------------------------------------- export and import
export == [op |-> "export"]
import(name) == [op |-> "import", file |-> name]
reload == [op |-> "reload"]

\* Between the export and the import: nothing, a lock, another save, or a
\* fresh vault (nothing stored, nothing in memory, initialized).
FreshVault == <<resetAll, reload, initialize>>
Between ==
    {<<>>, <<lock>>, <<setSecret(AppOrder[2], [client_secret |-> "abc"])>>, FreshVault}

\* Set up with P, save, export; later import the file (as it is, or edited),
\* initialize as the import handler does, unlock(W) and read all.
Backup(P, saved, between, name, W) ==
    <<initialize, unlock(P)>> \o saved \o <<export>> \o between \o
    <<import(name), initialize, unlock(W),
      getSecret(AppOrder[1], "client_secret"),
      getSecret(AppOrder[2], "client_secret")>>

InitImport ==
    \E P \in Passwords, W \in Passwords, saved \in Savings,
       between \in Between, name \in Edits :
        Loaded(Backup(P, saved, between, name, W))

NextImport ==
    \/ Initialize_Read(1)
    \/ Initialize_Update(1)
    \/ \E p \in Passwords : Unlock_Start(1, p)
    \/ Unlock_InitSalt_Get(1)
    \/ Unlock_InitSalt_Set(1)
    \/ Unlock_Verify_GetSalt(1)
    \/ Unlock_Verify_AppIds(1)
    \/ Unlock_Verify_Decrypt(1)
    \/ Unlock_GetMasterKey(1)
    \/ Unlock_Commit(1)
    \/ \E a \in AppIds, u \in Updates : SetSecret_Start(1, a, u)
    \/ SetSecret_Read(1)
    \/ SetSecret_Merge(1)
    \/ SetSecret_Write(1)
    \/ SetSecret_Commit(1)
    \/ Lock
    \/ ResetAll_Clear(1)
    \/ ResetAll_Commit(1)
    \/ PageReload
    \/ Export_GetSalt(1)
    \/ Export_GetAll(1)
    \/ \E name \in Edits : Import_Start(1, name)
    \/ Import_Clear(1)
    \/ Import_SetSalt(1)
    \/ Import_SetApp(1)
    \/ \E a \in AppIds : GetSecret_Start(1, a, "client_secret")
    \/ GetSecret_Read(1)
    \/ GetSecret_Decrypt(1)

SpecImport == InitImport /\ [][NextImport]_vars

\* The store that holds the salt and the records of an exported file.
StoreOf(f) ==
    [k \in {SaltKey} \cup {AppKey(a) : a \in DOMAIN f.apps} |->
        IF k = SaltKey THEN [key |-> k, data |-> f.salt.of]
        ELSE [key |-> k, data |-> f.apps[k[2]].ciphertext.of,
              nonce |-> f.apps[k[2]].nonce.of]]

\* The finished history of a backup: the export, the import, the unlock and
\* the reads after it, and what was saved for an entity before the export.
ExportAt == CHOOSE j \in 1..Len(hist) : hist[j].op = "export"
ImportAt == Len(hist) - 4
ImportedFresh == hist[ImportAt - 2].op = "resetAll"
UnlockAfterImport == hist[ImportAt + 2]
ReadAfterImport(a) ==
    IF a = AppOrder[1] THEN hist[ImportAt + 3] ELSE hist[ImportAt + 4]
ExportedFor(a) ==
    {hist[j].newSecrets : j \in {k \in 3..(ExportAt - 1) : hist[k].appId = a}}

\* C14: the exported object holds the salt and the records of the store;
\* imported into a fresh initialized vault it is accepted and gives the same
\* salt and records, and after unlock with the original password every
\* entity reads as it was saved.
C14_ExportImportRoundTrip ==
    /\ ret.op = "export" /\ ret.val.salt # Null => StoreOf(ret.val) = db
    /\ Changed /\ hist[ImportAt].file = "exported" /\ ImportedFresh =>
           /\ hist[ImportAt].val = JsTrue
           /\ db = StoreOf(file)
           /\ UnlockAfterImport.password = hist[2].password =>
                  /\ UnlockAfterImport.val = JsTrue
                  /\ \A a \in AppIds :
                         /\ \A B \in ExportedFor(a) :
                                ReadAfterImport(a).val = JsString(B.client_secret)
                         /\ ExportedFor(a) = {} => ReadAfterImport(a).val = Undefined

\* Both entities were saved, exported, imported into a fresh vault and read.
C14_Witness ==
    /\ Changed
    /\ hist[ImportAt].file = "exported"
    /\ ImportedFresh
    /\ hist[ImportAt].val = JsTrue
    /\ UnlockAfterImport.password = hist[2].password
    /\ ReadAfterImport(AppOrder[1]).val = JsString("abc")
    /\ ReadAfterImport(AppOrder[2]).val = JsString("xyz")

C16_ImportRejected ==
    [][ret'.op = "import"
         /\ \/ edited(file, ret'.file).version # 3
            \/ edited(file, ret'.file).salt = Null
       => /\ ret'.val = JsFalse
          /\ UNCHANGED <<db, secretsState, password, masterKey, secretsCache,
                         autoLockTimer, calls>>]_vars

\* A file of version 2 was rejected on an unlocked vault with a record.
C16_Witness ==
    /\ ret = [op |-> "import", file |-> "version2", val |-> JsFalse]
    /\ ~secretsState.isLocked
    /\ HasEntityRecord

\* C17: whenever an import returns false, the store is what it was before the
\* call (here: what the export just before the call had found).
C17_NoPartialImport ==
    /\ ret.op = "import"
    /\ ret.val = JsFalse
    /\ hist[Len(hist) - 1].op = "export"
    => db = StoreOf(file)

\* --------------------------------------------------------- failing storage
\* Every call of one caller, with a storage that fails for some of them.
NextFaulty ==
    \/ CallStep(Passwords, {AppOrder[1]}, {[client_secret |-> "abc"]})
    \/ Lock
    \/ PageReload
    \/ StorageFault
    \/ StorageRecover

InitFaulty == Loaded(<<Serial>>)
SpecFaulty == InitFaulty /\ [][NextFaulty]_vars

\* A call of one of ops that made storage requests returns in this step.
Returns(ops) == \E c \in Slots : calls[c].op \in ops /\ calls'[c] = Idle

\* C18: a call of initialize, unlock, getSecret, setSecret, removeSecret or
\* changeMasterPassword whose storage requests fail returns an error to its
\* caller, never a normal result.
C18_StorageErrorPropagated ==
    [][ioFails /\ Returns({"initialize", "unlock", "getSecret", "setSecret",
                           "removeSecret", "changeMasterPassword"})
       => ret'.val.t = "error"]_vars

\* ------------------------------------------------------- session continuity
persist(checked) == [op |-> "persistSession", checked |-> checked]

\* Between the unlock and the reload: nothing, a read, a lock, the timer
\* firing, or a password change.
Sessions ==
    {<<>>, <<getSecret(AppOrder[1], "client_secret")>>, <<lock>>, <<autolock>>}
    \cup {<<changeMasterPassword(p)>> : p \in Passwords}

\* Set up with P and save, lock, unlock with the checkbox as chosen, then the
\* page is loaded again and initializes.
Session(P, checked, between) ==
    <<initialize, unlock(P), setSecret(AppOrder[1], [client_secret |-> "abc"]),
      lock, persist(checked), unlock(P)>> \o between \o <<reload, initialize>>

InitSession ==
    \E P \in Passwords, checked \in BOOLEAN, between \in Sessions :
        Loaded(Session(P, checked, between))

NextSession ==
    \/ Initialize_Read(1)
    \/ Initialize_Update(1)
    \/ \E p \in Passwords : Unlock_Start(1, p)
    \/ Unlock_InitSalt_Get(1)
    \/ Unlock_InitSalt_Set(1)
    \/ Unlock_Verify_GetSalt(1)
    \/ Unlock_Verify_AppIds(1)
    \/ Unlock_Verify_Decrypt(1)
    \/ Unlock_GetMasterKey(1)
    \/ Unlock_Commit(1)
    \/ \E a \in AppIds, u \in Updates : SetSecret_Start(1, a, u)
    \/ SetSecret_Read(1)
    \/ SetSecret_Merge(1)
    \/ SetSecret_Write(1)
    \/ SetSecret_Commit(1)
    \/ \E checked \in BOOLEAN : SetPersistSession(checked)
    \/ \E a \in AppIds : GetSecret_Start(1, a, "client_secret")
    \/ GetSecret_Read(1)
    \/ GetSecret_Decrypt(1)
    \/ \E p \in Passwords : ChangePassword_Start(1, p)
    \/ ChangePassword_AppIds(1)
    \/ ChangePassword_Collect(1)
    \/ ChangePassword_Read(1)
    \/ ChangePassword_Decrypt(1)
    \/ Reencrypt_SetSalt(1)
    \/ Reencrypt_AppIds(1)
    \/ Reencrypt_Delete(1)
    \/ Reencrypt_Store(1)
    \/ ChangePassword_GetMasterKey(1)
    \/ ChangePassword_Commit(1)
    \/ Lock
    \/ AutoLock
    \/ PageReload

SpecSession == InitSession /\ [][NextSession]_vars

\* The page was loaded again and has initialized.
Reloaded == script = <<>> /\ ret.op = "initialize"

\* The last unlock succeeded with the checkbox set, and no lock, timer expiry
\* or password change came after it.
SessionKept ==
    \E i \in DOMAIN hist :
        /\ hist[i].op = "persistSession" /\ hist[i].checked
        /\ i < Len(hist)
        /\ hist[i + 1].op = "unlock" /\ hist[i + 1].val = JsTrue
        /\ \A j \in DOMAIN hist :
              j > i + 1 => hist[j].op \notin {"unlock", "lock", "autolock",
                                             "changeMasterPassword"}

\* C19: after a page reload within the same tab session the vault is unlocked,
\* with no password asked for, if and only if the last successful unlock opted
\* into session continuity and no lock, auto-lock expiry or password change
\* happened since.
C19_SessionContinuity ==
    Reloaded => (~secretsState.isLocked <=> SessionKept)

\* ------------------------------------------------------- first-time unlock
\* The salts generated before the n-th.
EarlierSalts(n) == {generateSalt(k) : k \in 1..(n - 1)}

\* While nothing is stored, an unlock in flight is on the first-time path and
\* has neither verified anything nor derived a key yet.
BeforeSalt ==
    \A c \in Slots :
        calls[c].op = "unlock" /\ ~hasStoredSecrets(db)
            => calls[c].firstTime /\ calls[c].pc \in {"ul_getSalt", "ul_setSalt"}

\* Such an unlock generates a salt no earlier one equals and stores it.
SaltCreated ==
    \A c \in Slots :
        calls[c].op = "unlock" /\ ~hasStoredSecrets(db) /\ hasStoredSecrets(db')
            => /\ getSalt(db') = generateSalt(salts')
               /\ getSalt(db') \notin EarlierSalts(salts')
               /\ getAllAppIds(db') = <<>>
               /\ calls'[c].op = "unlock" /\ calls'[c].firstTime

\* An unlock on the first-time path returns true, with the key of its password
\* and the stored salt retained, the vault unlocked and the timer armed.
FirstTimeReturn ==
    \A c \in Slots :
        calls[c].op = "unlock" /\ calls[c].firstTime /\ calls'[c] = Idle
            => /\ ret' = [op |-> "unlock", password |-> calls[c].password,
                          val |-> JsTrue]
               /\ hasStoredSecrets(db') /\ db' = db
               /\ masterKey' = deriveMasterKey(calls[c].password, getSalt(db'))
               /\ password' = calls[c].password
               /\ ~secretsState'.isLocked
               /\ autoLockTimer' = [t |-> "timeout", due |-> now' + AutoLockTicks]

SaltOnly(store) == getSalt(store) # Null /\ getAllAppIds(store) = <<>>

\* C21: when a salt is persisted and no entity record exists, unlock(p)
\* returns true for every password p, and the vault is then unlocked and holds
\* the key derived from p and the persisted salt.
C21_ProvisionalUnlock ==
    [][\A c \in Slots :
          calls[c].op = "unlock" /\ calls'[c] = Idle /\ SaltOnly(db)
              => /\ ret' = [op |-> "unlock", password |-> calls[c].password,
                            val |-> JsTrue]
                 /\ db' = db
                 /\ masterKey' = deriveMasterKey(calls[c].password, getSalt(db))
                 /\ ~secretsState'.isLocked]_vars

\* An unlock that went through verifyPassword (hasSecrets was set) returned
\* true on a store with a salt and, after a save and a removal, no record.
C21_Witness ==
    /\ ret.op = "unlock" /\ ret.val = JsTrue
    /\ secretsState.hasSecrets /\ nonces > 0
    /\ SaltOnly(db)
    /\ masterKey = deriveMasterKey(ret.password, getSalt(db))
    /\ ~secretsState.isLocked

\* ---------------------------------------------------------------- setSecret
\* What the record of id in store holds, read under key: its bundle, or Null.
Stored(store, id, key) ==
    loadAndDecryptAppSecrets(getAppEncrypted(store, id), id, key)

\* id's bundle before a save: the stored one, or the empty bundle.
PreviousBundle(id) ==
    IF Stored(db, id, masterKey) # Null THEN Stored(db, id, masterKey)
    ELSE createEmptyAppSecrets

\* The nonces of the records in store.
NoncesIn(store) == {store[AppKey(a)].nonce : a \in {x \in AppIds : AppKey(x) \in DOMAIN store}}

\* The stores and caches agree everywhere but at id.
SameButAt(id) ==
    /\ \A k \in (DOMAIN db \cup DOMAIN db') \ {AppKey(id)} :
           k \in DOMAIN db /\ k \in DOMAIN db' /\ db'[k] = db[k]
    /\ \A a \in (DOMAIN secretsCache \cup DOMAIN secretsCache') \ {id} :
           /\ a \in DOMAIN secretsCache /\ a \in DOMAIN secretsCache'
           /\ secretsCache'[a] = secretsCache[a]

\* id's cache entry after the step.
CachedAfter(id) ==
    IF id \in DOMAIN secretsCache' THEN secretsCache'[id] ELSE Undefined

\* A step of a setSecret call in flight in slot c.
SetSecretStep(c) ==
    LET id == calls[c].appId
        merged == mergeSecrets(PreviousBundle(id), calls[c].newSecrets)
    IN  /\ SameButAt(id)
        /\ db' # db =>
              /\ AppKey(id) \in DOMAIN db'
              /\ Stored(db', id, masterKey) = merged
              /\ db'[AppKey(id)].nonce = randomNonce(nonces)
              /\ db'[AppKey(id)].nonce \notin NoncesIn(db)
        /\ calls'[c] = Idle =>
              /\ ret'.val = Void
              /\ db' = db
              /\ CachedAfter(id) = Stored(db, id, masterKey)
              /\ secretsState'.hasSecrets
              /\ hasStoredSecrets(db)
              /\ ~secretsState'.isLocked

\* C22: on an unlocked vault setSecret(id, updates) persists one record for id,
\* under a fresh nonce and in place of any prior record, that decrypts to id's
\* previous bundle (the empty one if none) overridden by updates; it sets id's
\* cache entry to the merged bundle and hasSecrets to true, and leaves every
\* other entity's record and cache entry as they were.
C22_SetSecretReadModifyWrite ==
    [][/\ \A c \in Slots :
            /\ calls[c].op = "setSecret" => SetSecretStep(c)
            /\ IsIdle(c) /\ calls'[c].op = "setSecret" =>
                  UNCHANGED <<db, secretsCache, secretsState>>
       /\ ret'.op = "setSecret" /\ ret'.val = Void =>
             \E c \in Slots : calls[c].op = "setSecret" /\ db # clearAll]_vars

\* A save with no field kept the value the entity had, beside the other
\* entity's record.
C22_Witness ==
    /\ ret.op = "setSecret" /\ ret.val = Void /\ ret.newSecrets = NoUpdate
    /\ getCachedAppSecrets(ret.appId).client_secret # ""
    /\ Stored(db, ret.appId, masterKey) = getCachedAppSecrets(ret.appId)
    /\ db[AppKey(ret.appId)].nonce = randomNonce(nonces)
    /\ Len(getAllAppIds(db)) = 2

\* ------------------------------------------------------------- removeSecret
\* A step of a removeSecret call in flight in slot c: only id's record and
\* cache entry change, and once the call has returned both are gone.
RemoveSecretStep(c) ==
    LET id == calls[c].appId
    IN  /\ SameButAt(id)
        /\ calls'[c] = Idle =>
              /\ ret' = [op |-> "removeSecret", appId |-> id, val |-> Void]
              /\ AppKey(id) \notin DOMAIN db'
              /\ CachedAfter(id) = Undefined
              /\ ~secretsState'.isLocked

\* A removeSecret call returns in this step.
RemoveReturns == \E c \in Slots : calls[c].op = "removeSecret" /\ calls'[c] = Idle

\* A getSecret for an entity with no record returns undefined.
ReadOfRemoved ==
    ret'.op = "getSecret" /\ AppKey(ret'.appId) \notin DOMAIN db
        => ret'.val = Undefined

NextRekey ==
    \/ Initialize_Read(1)
    \/ Initialize_Update(1)
    \/ \E p \in Passwords : Unlock_Start(1, p)
    \/ Unlock_InitSalt_Get(1)
    \/ Unlock_InitSalt_Set(1)
    \/ Unlock_Verify_GetSalt(1)
    \/ Unlock_Verify_AppIds(1)
    \/ Unlock_Verify_Decrypt(1)
    \/ Unlock_GetMasterKey(1)
    \/ Unlock_Commit(1)
    \/ \E u \in Updates : SetSecret_Start(1, AppOrder[1], u)
    \/ SetSecret_Read(1)
    \/ SetSecret_Merge(1)
    \/ SetSecret_Write(1)
    \/ SetSecret_Commit(1)
    \/ \E p \in Passwords : ChangePassword_Start(1, p)
    \/ ChangePassword_AppIds(1)
    \/ ChangePassword_Collect(1)
    \/ Reencrypt_SetSalt(1)
    \/ Reencrypt_AppIds(1)
    \/ Reencrypt_Delete(1)
    \/ Reencrypt_Store(1)
    \/ ChangePassword_GetMasterKey(1)
    \/ ChangePassword_Commit(1)
    \/ \E a \in AppIds : GetSecret_Start(2, a, "client_secret")
    \/ GetSecret_Read(2)
    \/ GetSecret_Decrypt(2)

InitRekey == Loaded(<<Concurrent(MaxCalls)>>)
SpecRekey == InitRekey /\ [][NextRekey]_vars

\* The calls in flight that hold the vault's master key.
KeyHolders == {c \in Slots : "mk" \in DOMAIN calls[c] /\ calls[c].mk # Null}

\* The step in which a changeMasterPassword call stores its salt: a salt
\* that is neither the one stored before nor any generated earlier.
NewSaltStored ==
    \A c \in Slots :
        calls[c].op = "changeMasterPassword" /\ getSalt(db') # getSalt(db)
            => /\ getSalt(db') = generateSalt(salts')
               /\ getSalt(db') \notin EarlierSalts(salts') \cup {getSalt(db)}

\* The step in which a changeMasterPassword call returns normally.
RekeyReturn ==
    \A c \in Slots :
        calls[c].op = "changeMasterPassword" /\ calls'[c] = Idle
            => /\ ret' = [op |-> "changeMasterPassword",
                          newPassword |-> calls[c].newPassword, val |-> Void]
               /\ calls[c].rekey # Null
               /\ getSalt(db') = generateSalt(salts') /\ db' = db
               /\ masterKey # Null /\ masterKey' # masterKey
               /\ masterKey' = deriveMasterKey(calls[c].newPassword, getSalt(db'))
               /\ \A h \in KeyHolders \ {c} : calls'[h].mk = ZeroKey
               /\ ~secretsState'.isLocked

\* C24: when changeMasterPassword(newPw) completes, the persisted salt is a
\* newly generated one that differs from the salt before the call, the master
\* key in memory is the key derived from newPw and the persisted salt, the
\* buffer of the old master key has been zeroed (a read still in flight sees
\* zeros through it), and the vault is still unlocked.
C24_NewSaltAndKey ==
    [][NewSaltStored /\ RekeyReturn]_vars

\* A password change has just returned while a read that started before it
\* holds the old key's buffer, now zeroed.
C24_Witness ==
    /\ ret.op = "changeMasterPassword" /\ ret.val = Void
    /\ salts = 2 /\ getSalt(db) = generateSalt(2)
    /\ masterKey = deriveMasterKey(ret.newPassword, generateSalt(2))
    /\ calls[2].op = "getSecret" /\ calls[2].mk = ZeroKey
    /\ ~secretsState.isLocked

\* ---------------------------------------------------------------- isolation
\* What the two entities are saved with.
SavedValue(a) == IF a = AppOrder[1] THEN "abc" ELSE "xyz"

\* Relocking after the import, or not.
Relock(P) == {<<>>, <<lock, unlock(P)>>}

\* Set up with P, save both entities, lock and unlock (the cache is empty),
\* export, import the file as it is or with the two records exchanged,
\* initialize as the import handler does, and read both.
Swap(P, name, relock) ==
    <<initialize, unlock(P),
      setSecret(AppOrder[1], [client_secret |-> SavedValue(AppOrder[1])]),
      setSecret(AppOrder[2], [client_secret |-> SavedValue(AppOrder[2])]),
      lock, unlock(P), export, import(name), initialize>> \o relock \o
    <<getSecret(AppOrder[1], "client_secret"),
      getSecret(AppOrder[2], "client_secret")>>

InitSwap ==
    \E P \in Passwords, name \in {"exported", "swapped"} :
        \E relock \in Relock(P) : Loaded(Swap(P, name, relock))

NextSwap ==
    \/ Initialize_Read(1)
    \/ Initialize_Update(1)
    \/ \E p \in Passwords : Unlock_Start(1, p)
    \/ Unlock_InitSalt_Get(1)
    \/ Unlock_InitSalt_Set(1)
    \/ Unlock_Verify_GetSalt(1)
    \/ Unlock_Verify_AppIds(1)
    \/ Unlock_Verify_Decrypt(1)
    \/ Unlock_GetMasterKey(1)
    \/ Unlock_Commit(1)
    \/ \E a \in AppIds, u \in Updates : SetSecret_Start(1, a, u)
    \/ SetSecret_Read(1)
    \/ SetSecret_Merge(1)
    \/ SetSecret_Write(1)
    \/ SetSecret_Commit(1)
    \/ Lock
    \/ Export_GetSalt(1)
    \/ Export_GetAll(1)
    \/ \E name \in {"exported", "swapped"} : Import_Start(1, name)
    \/ Import_Clear(1)
    \/ Import_SetSalt(1)
    \/ Import_SetApp(1)
    \/ \E a \in AppIds : GetSecret_Start(1, a, "client_secret")
    \/ GetSecret_Read(1)
    \/ GetSecret_Decrypt(1)

SpecSwap == InitSwap /\ [][NextSwap]_vars

\* The entity a stored record was sealed for.
SealedFor(entry) == entry.data.k.app

\* C25: under one master key the DEKs of two distinct entities differ; a
\* stored record that was sealed for another entity does not authenticate
\* when it is read as this entity's record (as after an import that exchanges
\* the two records); and no getSecret(B, f) returns what was saved for the
\* other entity.
C25_Isolation ==
    /\ \A a \in AppIds, b \in AppIds :
           a # b /\ masterKey # Null
               => deriveDEK(masterKey, a) # deriveDEK(masterKey, b)
    /\ \A b \in AppIds :
           /\ masterKey # Null
           /\ AppKey(b) \in DOMAIN db
           /\ \E a \in AppIds \ {b} :
                 db[AppKey(b)].data.k = deriveDEK(masterKey, a)
           => Stored(db, b, masterKey) = Null
    /\ \A i \in DOMAIN hist :
           hist[i].op = "getSecret"
               => hist[i].val \in {Undefined, JsString(SavedValue(hist[i].appId))}

\* The import exchanged the two records, and the read of the first entity,
\* not in the cache, found a record sealed for the second and returned
\* undefined.
C25_Witness ==
    /\ Len(hist) = 10
    /\ hist[8].op = "import" /\ hist[8].file = "swapped" /\ hist[8].val = JsTrue
    /\ hist[10].op = "getSecret" /\ hist[10].appId = AppOrder[1]
    /\ hist[10].val = Undefined
    /\ ~secretsState.isLocked
    /\ SealedFor(db[AppKey(AppOrder[1])]) = AppOrder[2]
    /\ masterKey = db[AppKey(AppOrder[1])].data.k.mk

\* --------------------------------------------------------- initialize again
\* What comes before the repeated initialize: nothing, an unlock, a save, a
\* lock, an import of the exported file, or that import into the emptied store.
Befores(P) ==
    LET saved == <<unlock(P), setSecret(AppOrder[1], [client_secret |-> "abc"])>>
    IN  {<<>>, <<unlock(P)>>, saved, saved \o <<lock>>,
         saved \o <<export, import("exported")>>,
         saved \o <<export, resetAll, import("exported")>>}

InitAgain ==
    \E P \in Passwords :
        \E before \in Befores(P) :
            Loaded(<<initialize>> \o before \o <<initialize, initialize>>)

NextAgain ==
    \/ Initialize_Read(1)
    \/ Initialize_Update(1)
    \/ \E p \in Passwords : Unlock_Start(1, p)
    \/ Unlock_InitSalt_Get(1)
    \/ Unlock_InitSalt_Set(1)
    \/ Unlock_GetMasterKey(1)
    \/ Unlock_Commit(1)
    \/ \E a \in AppIds, u \in Updates : SetSecret_Start(1, a, u)
    \/ SetSecret_Read(1)
    \/ SetSecret_Merge(1)
    \/ SetSecret_Write(1)
    \/ SetSecret_Commit(1)
    \/ Lock
    \/ ResetAll_Clear(1)
    \/ ResetAll_Commit(1)
    \/ Export_GetSalt(1)
    \/ Export_GetAll(1)
    \/ \E name \in Edits : Import_Start(1, name)
    \/ Import_Clear(1)
    \/ Import_SetSalt(1)
    \/ Import_SetApp(1)

SpecAgain == InitAgain /\ [][NextAgain]_vars

\* The state is as an initialize leaves it.
AsInitialized ==
    /\ secretsState.isInitialized
    /\ secretsState.hasSecrets = hasStoredSecrets(db)
    /\ secretsState.masterPasswordSet = hasStoredSecrets(db)

\* A step of an initialize call in flight in slot c.
InitializeStep(c) ==
    /\ UNCHANGED <<db, password, masterKey, secretsCache, autoLockTimer>>
    /\ secretsState'.isLocked = secretsState.isLocked
    /\ calls'[c] = Idle =>
          /\ ret' = [op |-> "initialize", val |-> Void]
          /\ secretsState'.isInitialized
          /\ secretsState'.hasSecrets = hasStoredSecrets(db)
          /\ AsInitialized => secretsState' = secretsState
          /\ AsInitialized'

\* C26: initialize() can be repeated: every call sets hasSecrets from the
\* persisted store and returns normally, also when nothing is stored, and
\* changes neither isLocked nor the master key, the cache, the timer or the
\* store; a call on a state that an initialize left (a second call, or one
\* after an import and its initialize) changes nothing at all.
C26_InitializeIdempotent ==
    [][\A c \in Slots :
          /\ calls[c].op = "initialize" => InitializeStep(c)
          /\ IsIdle(c) /\ calls'[c].op = "initialize" =>
                UNCHANGED <<db, memVars, autoLockTimer>>]_vars

\* After an import into the emptied store, initialize has returned twice, on
\* a locked vault that has secrets stored.
C26_Witness ==
    /\ script = <<>> /\ Len(hist) = 8
    /\ hist[5].op = "resetAll"
    /\ hist[6].op = "import" /\ hist[6].val = JsTrue
    /\ hist[7].op = "initialize" /\ hist[8].op = "initialize"
    /\ ret = [op |-> "initialize", val |-> Void]
    /\ secretsState.hasSecrets /\ secretsState.isLocked /\ AsInitialized

\* ------------------------------------------------------- the frame of lock
\* C27: lock(), called or run by the timer, changes memory only: the persisted
\* salt and every entity record stay as they are, and hasSecrets keeps its
\* value.
C27_LockFrame ==
    [][ret'.op \in {"lock", "autolock"}
          => /\ db' = db
             /\ getSalt(db') = getSalt(db)
             /\ \A a \in AppIds : getAppEncrypted(db', a) = getAppEncrypted(db, a)
             /\ secretsState'.hasSecrets = secretsState.hasSecrets
             /\ secretsState'.isLocked /\ masterKey' = Null]_vars

\* The timer has just locked a vault that holds a salt and a record, and
\* hasSecrets is still true.
C27_Witness ==
    /\ ret.op = "autolock"
    /\ getSalt(db) # Null /\ getAllAppIds(db) # <<>>
    /\ secretsState.hasSecrets /\ secretsState.isLocked

\* ------------------------------------------------- unlock verifies one record
\* One record altered while the vault is locked, or none.
Tampers == {<<>>} \cup {<<tamper(id, part)>> : id \in AppIds, part \in Parts}

\* Set up with P, save, lock, perhaps alter a record, unlock(W).
VerifyOne(P, saved, tampers, W) ==
    <<initialize, unlock(P)>> \o saved \o <<lock>> \o tampers \o <<unlock(W)>>

InitVerifyOne ==
    \E P \in Passwords, W \in Passwords, saved \in Savings \ {<<>>},
       tampers \in Tampers :
        Loaded(VerifyOne(P, saved, tampers, W))

NextVerifyOne ==
    \/ Initialize_Read(1)
    \/ Initialize_Update(1)
    \/ \E p \in Passwords : Unlock_Start(1, p)
    \/ Unlock_InitSalt_Get(1)
    \/ Unlock_InitSalt_Set(1)
    \/ Unlock_Verify_GetSalt(1)
    \/ Unlock_Verify_AppIds(1)
    \/ Unlock_Verify_Decrypt(1)
    \/ Unlock_GetMasterKey(1)
    \/ Unlock_Commit(1)
    \/ \E a \in AppIds, u \in Updates : SetSecret_Start(1, a, u)
    \/ SetSecret_Read(1)
    \/ SetSecret_Merge(1)
    \/ SetSecret_Write(1)
    \/ SetSecret_Commit(1)
    \/ Lock
    \/ \E a \in AppIds, part \in Parts : Tamper(a, part)

SpecVerifyOne == InitVerifyOne /\ [][NextVerifyOne]_vars

\* The first stored record opens under password pw and the stored salt.
FirstRecordOpens(pw) ==
    Stored(db, getAllAppIds(db)[1], deriveMasterKey(pw, getSalt(db))) # Null

\* C28: unlock on a store with entity records accepts the password if and
\* only if the first record authenticates under it, whatever the other
\* records do; it decrypts nothing into the cache, which is as it was, and
\* empty, when unlock returns on a vault that was locked.
C28_VerifiesOneRecord ==
    [][\A c \in Slots :
          calls[c].op = "unlock" /\ getAllAppIds(db) # <<>>
              => /\ secretsCache' = secretsCache
                 /\ calls'[c] = Idle =>
                       /\ ret'.val = JsTrue <=> FirstRecordOpens(calls[c].password)
                       /\ ret'.val = JsFalse <=> ~FirstRecordOpens(calls[c].password)
                       /\ secretsState.isLocked => secretsCache' = EmptyCache]_vars

\* unlock accepted the password on a store of two records, of which the
\* second does not authenticate; the cache is empty.
C28_Witness ==
    /\ ret.op = "unlock" /\ ret.val = JsTrue
    /\ Len(getAllAppIds(db)) = 2
    /\ Stored(db, AppOrder[1], masterKey) # Null
    /\ Stored(db, AppOrder[2], masterKey) = Null
    /\ secretsCache = EmptyCache /\ ~secretsState.isLocked

\* ------------------------------------------- password change, every record
\* Set up with P, save, lock, perhaps alter a record, unlock(P) (nothing is
\* in the cache), change the password to N.
ChangeAll(P, saved, tampers, N) ==
    <<initialize, unlock(P)>> \o saved \o <<lock>> \o tampers \o
    <<unlock(P), changeMasterPassword(N)>>

InitChangeAll ==
    \E P \in Passwords, N \in Passwords, saved \in Savings, tampers \in Tampers :
        Loaded(ChangeAll(P, saved, tampers, N))

NextChangeAll ==
    \/ Initialize_Read(1)
    \/ Initialize_Update(1)
    \/ \E p \in Passwords : Unlock_Start(1, p)
    \/ Unlock_InitSalt_Get(1)
    \/ Unlock_InitSalt_Set(1)
    \/ Unlock_Verify_GetSalt(1)
    \/ Unlock_Verify_AppIds(1)
    \/ Unlock_Verify_Decrypt(1)
    \/ Unlock_GetMasterKey(1)
    \/ Unlock_Commit(1)
    \/ \E a \in AppIds, u \in Updates : SetSecret_Start(1, a, u)
    \/ SetSecret_Read(1)
    \/ SetSecret_Merge(1)
    \/ SetSecret_Write(1)
    \/ SetSecret_Commit(1)
    \/ Lock
    \/ \E a \in AppIds, part \in Parts : Tamper(a, part)
    \/ \E p \in Passwords : ChangePassword_Start(1, p)
    \/ ChangePassword_AppIds(1)
    \/ ChangePassword_Collect(1)
    \/ ChangePassword_Read(1)
    \/ ChangePassword_Decrypt(1)
    \/ Reencrypt_SetSalt(1)
    \/ Reencrypt_AppIds(1)
    \/ Reencrypt_Delete(1)
    \/ Reencrypt_Store(1)
    \/ ChangePassword_GetMasterKey(1)
    \/ ChangePassword_Commit(1)

SpecChangeAll == InitChangeAll /\ [][NextChangeAll]_vars

\* The entities that had a record when the password change was called: the
\* ones saved.
IdsBefore ==
    {hist[i].appId : i \in {j \in DOMAIN hist : hist[j].op = "setSecret"}}

\* The entities that have a record.
IdsStored == {a \in AppIds : AppKey(a) \in DOMAIN db}

\* C29: changeMasterPassword re-encrypts every entity record of the store,
\* cached or not: the entities persisted after the call are the ones persisted
\* before it, and each of their records decrypts under the new master key.
C29_ReencryptsAll ==
    script = <<>> /\ ret.op = "changeMasterPassword" /\ ret.val = Void
        => /\ IdsStored = IdsBefore
           /\ \A a \in IdsStored : Stored(db, a, masterKey) # Null

\* ------------------------------------------ setSecret resumed after a lock
\* A step of a setSecret call in flight writes to the store, or to the cache.
SetSecretWritesStore == \E c \in Slots : calls[c].op = "setSecret" /\ db' # db
SetSecretWritesCache ==
    \E c \in Slots : /\ calls[c].op = "setSecret"
                      /\ calls[c].pc \in {"set_merge", "set_commit"}
                      /\ secretsCache' # secretsCache

\* The records sealed under a key derived from the zeroed master key.
SealedUnderZeroKey ==
    {a \in IdsStored : db[AppKey(a)].data.k = deriveDEK(ZeroKey, a)}

\* C30: whenever lock() or the timer runs while a setSecret call is suspended
\* at an await, the resumed call persists no record encrypted under the zeroed
\* master key, and writes neither to the store nor to the cache once the vault
\* is locked.
C30_NoWriteAfterLock ==
    /\ [](SealedUnderZeroKey = {})
    /\ [][secretsState.isLocked => ~SetSecretWritesStore /\ ~SetSecretWritesCache]_vars

\* ---------------------------------------------------------- key consistency
\* Set up with P, save the first entity, export and reset; set up again with
\* Q (a new salt), import the file while unlocked, initialize as the import
\* handler does, save the second entity, lock, unlock(W) and read both.
Restore(P, Q, W) ==
    <<initialize, unlock(P),
      setSecret(AppOrder[1], [client_secret |-> "abc"]),
      export, resetAll, initialize, unlock(Q),
      import("exported"), initialize,
      setSecret(AppOrder[2], [client_secret |-> "xyz"]),
      lock, unlock(W),
      getSecret(AppOrder[2], "client_secret"),
      getSecret(AppOrder[1], "client_secret")>>

InitRestore ==
    \E P \in Passwords, Q \in Passwords, W \in Passwords :
        Loaded(Restore(P, Q, W))

NextRestore ==
    \/ Initialize_Read(1)
    \/ Initialize_Update(1)
    \/ \E p \in Passwords : Unlock_Start(1, p)
    \/ Unlock_InitSalt_Get(1)
    \/ Unlock_InitSalt_Set(1)
    \/ Unlock_Verify_GetSalt(1)
    \/ Unlock_Verify_AppIds(1)
    \/ Unlock_Verify_Decrypt(1)
    \/ Unlock_GetMasterKey(1)
    \/ Unlock_Commit(1)
    \/ \E a \in AppIds, u \in Updates : SetSecret_Start(1, a, u)
    \/ SetSecret_Read(1)
    \/ SetSecret_Merge(1)
    \/ SetSecret_Write(1)
    \/ SetSecret_Commit(1)
    \/ Lock
    \/ ResetAll_Clear(1)
    \/ ResetAll_Commit(1)
    \/ Export_GetSalt(1)
    \/ Export_GetAll(1)
    \/ \E name \in Edits : Import_Start(1, name)
    \/ Import_Clear(1)
    \/ Import_SetSalt(1)
    \/ Import_SetApp(1)
    \/ \E a \in AppIds : GetSecret_Start(1, a, "client_secret")
    \/ GetSecret_Read(1)
    \/ GetSecret_Decrypt(1)

SpecRestore == InitRestore /\ [][NextRestore]_vars

\* No call is in flight.
Quiet == \A c \in Slots : IsIdle(c)

\* The passwords whose key, derived with the persisted salt, opens every
\* persisted entity record.
OpeningPasswords(store) ==
    {pw \in Passwords :
        \A a \in AppIds :
            AppKey(a) \in DOMAIN store
                => Stored(store, a, deriveMasterKey(pw, getSalt(store))) # Null}

\* One password opens every record and, while unlocked, gives the key in memory.
KeyConsistent ==
    \E pw \in OpeningPasswords(db) :
        ~secretsState.isLocked => masterKey = deriveMasterKey(pw, getSalt(db))

\* A successful setSecret, then lock(), then a successful unlock, then the
\* read of what was saved.
ReadsBackAt(i) ==
    /\ i > 3
    /\ hist[i].op = "getSecret"
    /\ hist[i - 1].op = "unlock" /\ hist[i - 1].val = JsTrue
    /\ hist[i - 2].op = "lock"
    /\ hist[i - 3].op = "setSecret" /\ hist[i - 3].val = Void
    /\ hist[i - 3].appId = hist[i].appId
    /\ hist[i].key \in DOMAIN hist[i - 3].newSecrets

\* C31: whenever no call is in flight and a salt is persisted (also after an
\* import and its initialize on an unlocked vault), every persisted entity
\* record decrypts under the key derived from one password and the persisted
\* salt, and while unlocked the master key in memory is that key; and what a
\* setSecret saved is read back after lock() and a successful unlock.
C31_KeyConsistency ==
    /\ Quiet /\ hasStoredSecrets(db) => KeyConsistent
    /\ \A i \in DOMAIN hist :
           ReadsBackAt(i)
               => hist[i].val = JsString(hist[i - 3].newSecrets[hist[i].key])

\* ------------------------------------- setSecret beside changeMasterPassword
\* Set up with P and save the first entity (relocking empties the cache); then
\* two calls that may overlap.
Race(P, relock) ==
    <<initialize, unlock(P),
      setSecret(AppOrder[1], [client_secret |-> "abc"])>> \o relock \o
    <<Concurrent(2)>>

InitRace ==
    \E P \in Passwords : \E relock \in Relock(P) : Loaded(Race(P, relock))

\* What the overlapping setSecret saves.
RaceUpdate == [client_secret |-> "xyz"]

\* After the setup, changeMasterPassword is called in slot 1 and, while it is
\* in flight, setSecret in slot 2.
NextRace ==
    \/ Scripted /\ Initialize_Read(1)
    \/ Initialize_Update(1)
    \/ \E p \in Passwords : Scripted /\ Unlock_Start(1, p)
    \/ Unlock_InitSalt_Get(1)
    \/ Unlock_InitSalt_Set(1)
    \/ Unlock_Verify_GetSalt(1)
    \/ Unlock_Verify_AppIds(1)
    \/ Unlock_Verify_Decrypt(1)
    \/ Unlock_GetMasterKey(1)
    \/ Unlock_Commit(1)
    \/ \E a \in AppIds, u \in Updates : Scripted /\ SetSecret_Start(1, a, u)
    \/ SetSecret_Read(1)
    \/ SetSecret_Merge(1)
    \/ SetSecret_Write(1)
    \/ SetSecret_Commit(1)
    \/ Scripted /\ Lock
    \/ \E p \in Passwords :
          ScriptHead = Concurrent(2) /\ ChangePassword_Start(1, p)
    \/ ChangePassword_AppIds(1)
    \/ ChangePassword_Collect(1)
    \/ ChangePassword_Read(1)
    \/ ChangePassword_Decrypt(1)
    \/ Reencrypt_SetSalt(1)
    \/ Reencrypt_AppIds(1)
    \/ Reencrypt_Delete(1)
    \/ Reencrypt_Store(1)
    \/ ChangePassword_GetMasterKey(1)
    \/ ChangePassword_Commit(1)
    \/ \E a \in AppIds :
          calls[1].op = "changeMasterPassword" /\ SetSecret_Start(2, a, RaceUpdate)
    \/ SetSecret_Read(2)
    \/ SetSecret_Merge(2)
    \/ SetSecret_Write(2)
    \/ SetSecret_Commit(2)

SpecRace == InitRace /\ [][NextRace]_vars

\* Both overlapping calls have been made and have returned.
Raced == script = <<Concurrent(0)>> /\ Quiet

\* The entities whose persisted record opens under the master key in memory
\* and holds what the overlapping setSecret saved.
HoldUpdate ==
    {a \in AppIds :
        /\ Stored(db, a, masterKey) # Null
        /\ Stored(db, a, masterKey).client_secret = RaceUpdate.client_secret}

\* C32: when a setSecret that was called while changeMasterPassword was in
\* flight and that changeMasterPassword have both returned, every persisted
\* record decrypts under the new master key, and the record of the entity
\* that setSecret updated holds the update.
C32_SetSecretDuringRekey ==
    Raced =>
        /\ \A a \in AppIds :
               AppKey(a) \in DOMAIN db => Stored(db, a, masterKey) # Null
        /\ HoldUpdate # {}

\* ------------------------------------------ changeMasterPassword interrupted
\* Set up with P and save one entity or both (relocking empties the cache);
\* then changeMasterPassword and, while it is in flight, the interruption.
Interrupt(P, saved, relock) ==
    <<initialize, unlock(P)>> \o saved \o relock \o <<Concurrent(3)>>

InitInterrupt ==
    \E P \in Passwords, saved \in Savings :
        \E relock \in Relock(P) : Loaded(Interrupt(P, saved, relock))

\* After the setup, changeMasterPassword is called and, at any of its awaits,
\* the page is lost or IndexedDB starts to fail (and answers again later).
NextInterrupt ==
    \/ Scripted /\ Initialize_Read(1)
    \/ Initialize_Update(1)
    \/ \E p \in Passwords : Scripted /\ Unlock_Start(1, p)
    \/ Unlock_InitSalt_Get(1)
    \/ Unlock_InitSalt_Set(1)
    \/ Unlock_Verify_GetSalt(1)
    \/ Unlock_Verify_AppIds(1)
    \/ Unlock_Verify_Decrypt(1)
    \/ Unlock_GetMasterKey(1)
    \/ Unlock_Commit(1)
    \/ \E a \in AppIds, u \in Updates : Scripted /\ SetSecret_Start(1, a, u)
    \/ SetSecret_Read(1)
    \/ SetSecret_Merge(1)
    \/ SetSecret_Write(1)
    \/ SetSecret_Commit(1)
    \/ Scripted /\ Lock
    \/ \E p \in Passwords :
          ScriptHead = Concurrent(3) /\ ChangePassword_Start(1, p)
    \/ ChangePassword_AppIds(1)
    \/ ChangePassword_Collect(1)
    \/ ChangePassword_Read(1)
    \/ ChangePassword_Decrypt(1)
    \/ Reencrypt_SetSalt(1)
    \/ Reencrypt_AppIds(1)
    \/ Reencrypt_Delete(1)
    \/ Reencrypt_Store(1)
    \/ ChangePassword_GetMasterKey(1)
    \/ ChangePassword_Commit(1)
    \/ calls[1].op = "changeMasterPassword" /\ PageReload
    \/ calls[1].op = "changeMasterPassword" /\ StorageFault
    \/ StorageRecover

SpecInterrupt == InitInterrupt /\ [][NextInterrupt]_vars

\* The entities saved before changeMasterPassword was called.
SavedBefore ==
    {hist[i].appId : i \in {j \in DOMAIN hist : hist[j].op = "setSecret"}}

\* changeMasterPassword was called and has returned, or was lost with the
\* page; nothing runs any more and IndexedDB answers.
Interrupted ==
    /\ ScriptHead.op = "concurrent" /\ ScriptHead.left < 3
    /\ Quiet /\ ~ioFails

\* C33: when changeMasterPassword has been interrupted at any of its awaits by
\* a page crash or a storage failure, every entity saved before the call still
\* has its record, and the record decrypts under the key derived from a
\* password (the old one or the new one) and the salt persisted then.
C33_RecoverableAfterInterrupt ==
    Interrupted =>
        \A a \in SavedBefore :
            /\ AppKey(a) \in DOMAIN db
            /\ \E pw \in Passwords :
                   Stored(db, a, deriveMasterKey(pw, getSalt(db))) # Null

\* ------------------------------------------------------------ cache coherence
\* Set up with P, save the first entity, export, save it again (or not), lock
\* and unlock (the cache is empty); then two calls that may overlap.
Stale(P, again) ==
    <<initialize, unlock(P),
      setSecret(AppOrder[1], [client_secret |-> "abc"]), export>> \o again \o
    <<lock, unlock(P), Concurrent(2)>>

InitStale ==
    \E P \in Passwords,
       again \in {<<>>, <<setSecret(AppOrder[1], [client_secret |-> "xyz"])>>} :
        Loaded(Stale(P, again))

\* After the setup, getSecret is called in slot 2 and, while it is in flight,
\* removeSecret, resetAll or the import of the exported file in slot 1.
NextStale ==
    \/ Scripted /\ Initialize_Read(1)
    \/ Initialize_Update(1)
    \/ \E p \in Passwords : Scripted /\ Unlock_Start(1, p)
    \/ Unlock_InitSalt_Get(1)
    \/ Unlock_InitSalt_Set(1)
    \/ Unlock_Verify_GetSalt(1)
    \/ Unlock_Verify_AppIds(1)
    \/ Unlock_Verify_Decrypt(1)
    \/ Unlock_GetMasterKey(1)
    \/ Unlock_Commit(1)
    \/ \E a \in AppIds, u \in Updates : Scripted /\ SetSecret_Start(1, a, u)
    \/ SetSecret_Read(1)
    \/ SetSecret_Merge(1)
    \/ SetSecret_Write(1)
    \/ SetSecret_Commit(1)
    \/ Scripted /\ Lock
    \/ Scripted /\ Export_GetSalt(1)
    \/ Export_GetAll(1)
    \/ \E a \in AppIds :
          ScriptHead = Concurrent(2) /\ GetSecret_Start(2, a, "client_secret")
    \/ GetSecret_Read(2)
    \/ GetSecret_Decrypt(2)
    \/ \E a \in AppIds : calls[2].op = "getSecret" /\ RemoveSecret_Start(1, a)
    \/ RemoveSecret_Delete(1)
    \/ RemoveSecret_Uncache(1)
    \/ RemoveSecret_Read(1)
    \/ RemoveSecret_Update(1)
    \/ calls[2].op = "getSecret" /\ ResetAll_Clear(1)
    \/ ResetAll_Commit(1)
    \/ calls[2].op = "getSecret" /\ Import_Start(1, "exported")
    \/ Import_Clear(1)
    \/ Import_SetSalt(1)
    \/ Import_SetApp(1)

SpecStale == InitStale /\ [][NextStale]_vars

\* Every cache entry is what the entity's persisted record holds under the
\* master key in memory.
CacheCoherent ==
    \A a \in DOMAIN secretsCache : secretsCache[a] = Stored(db, a, masterKey)

\* getSecret returns a value in this step.
GetSecretReturnsValue == ret'.op = "getSecret" /\ ret'.val # Undefined

\* C34: whenever the vault is unlocked and no call is in flight, every cache
\* entry equals the decryption of the entity's persisted record under the
\* master key in memory (also after removeSecret, resetAll or import has
\* completed while a getSecret of that entity was suspended), and getSecret
\* returns a value only for an entity that has a persisted record.
C34_CacheCoherence ==
    /\ [](Quiet /\ ~secretsState.isLocked => CacheCoherent)
    /\ [][GetSecretReturnsValue => AppKey(ret'.appId) \in DOMAIN db']_vars

\* --------------------------------------------------------- password stability
\* What follows the first save: nothing, the removal of the only entity, or
\* another save and the removal of one entity or of both.
removeSecret(id) == [op |-> "removeSecret", appId |-> id]

Removals ==
    LET other == setSecret(AppOrder[2], [client_secret |-> "xyz"])
    IN  {<<>>,
         <<removeSecret(AppOrder[1])>>,
         <<other, removeSecret(AppOrder[1])>>,
         <<other, removeSecret(AppOrder[1]), removeSecret(AppOrder[2])>>}

\* Set up with P, save the first entity, remove, lock, unlock(W) and read.
Takeover(P, removals, W) ==
    <<initialize, unlock(P), setSecret(AppOrder[1], [client_secret |-> "abc"])>>
    \o removals \o
    <<lock, unlock(W), getSecret(AppOrder[2], "client_secret")>>

InitTakeover ==
    \E P \in Passwords, W \in Passwords, removals \in Removals :
        Loaded(Takeover(P, removals, W))

NextTakeover ==
    \/ Initialize_Read(1)
    \/ Initialize_Update(1)
    \/ \E p \in Passwords : Unlock_Start(1, p)
    \/ Unlock_InitSalt_Get(1)
    \/ Unlock_InitSalt_Set(1)
    \/ Unlock_Verify_GetSalt(1)
    \/ Unlock_Verify_AppIds(1)
    \/ Unlock_Verify_Decrypt(1)
    \/ Unlock_GetMasterKey(1)
    \/ Unlock_Commit(1)
    \/ \E a \in AppIds, u \in Updates : SetSecret_Start(1, a, u)
    \/ SetSecret_Read(1)
    \/ SetSecret_Merge(1)
    \/ SetSecret_Write(1)
    \/ SetSecret_Commit(1)
    \/ \E a \in AppIds : RemoveSecret_Start(1, a)
    \/ RemoveSecret_Delete(1)
    \/ RemoveSecret_Uncache(1)
    \/ RemoveSecret_Read(1)
    \/ RemoveSecret_Update(1)
    \/ Lock
    \/ \E a \in AppIds : GetSecret_Start(1, a, "client_secret")
    \/ GetSecret_Read(1)
    \/ GetSecret_Decrypt(1)

SpecTakeover == InitTakeover /\ [][NextTakeover]_vars

\* The password of the first-time unlock, under which the first entity was
\* saved.
FirstPassword == hist[2].password

\* C35: after a first-time unlock with P and a save under it, and with no
\* changeMasterPassword, resetAll or import since, every unlock that succeeds
\* was given P, also when every entity has been removed in between.
C35_PasswordStability ==
    \A i \in DOMAIN hist :
        i > 3 /\ hist[i].op = "unlock" /\ hist[i].val = JsTrue
            => hist[i].password = FirstPassword

\* ------------------------------------------------- hasSecrets and the store
\* The hasSecrets flag in memory is what initializeSecretsStore would set now.
FlagAsStored == secretsState.hasSecrets = hasStoredSecrets(db)

\* An unlock that starts in this step takes the path that it would take after
\* a page reload and initialize(): first-time setup exactly if no salt is
\* persisted.
UnlockPathAsStored ==
    \A c \in Slots :
        IsIdle(c) /\ calls'[c].op = "unlock"
            => calls'[c].firstTime = ~hasStoredSecrets(db)

\* C36: whenever initialize() has run and no call is in flight, the hasSecrets
\* flag in memory equals what initialize() would compute from the persisted
\* store (whether a salt is persisted), and every unlock takes the path
\* (first-time setup or verification) that it would take after a page reload
\* and initialize().
C36_FlagMatchesStore ==
    /\ [](Quiet /\ secretsState.isInitialized => FlagAsStored)
    /\ [][UnlockPathAsStored]_vars
====
